---- MODULE Spec2Model ----
(***************************************************************************)
(* FitWise: the domain helpers of types.ts (getBodyPart,                   *)
(* calculateOneRepMax) and the derived reports of the StatsView component  *)
(* (lifetimeStats, volumeData, bodyPartData, exerciseProgressData,         *)
(* personalRecords, crazyStats), and the App component that owns the       *)
(* workout collection, the custom exercises and the unit system.           *)
(*                                                                         *)
(* Numbers are integers: weights, reps, distances and durations are whole  *)
(* units and a date is its getTime() value counted in ticks.  A WorkoutSet *)
(* is a record that has only the fields that are present, so an optional   *)
(* field of the source is a field that may be missing from the record.     *)
(***************************************************************************)
EXTENDS Integers, Sequences, FiniteSets, TLC

VARIABLES
    unitSystem,            \* StatsView prop: "metric" or "imperial"
    workouts,              \* StatsView prop: Workout[]
    customBodyParts,       \* StatsView prop: Record<string, string>
    selectedExercise,      \* StatsView state, useState('Bench Press')
    phase,                 \* "mounted" before the first render, then "rendered";
                           \* "unmounted" while App shows another view
    lifetimeStats,         \* the useMemo values of StatsView
    volumeData,
    bodyPartData,
    exerciseProgressData,
    personalRecords,
    crazyStats,
    args,                  \* arguments of a direct call of a types.ts helper
    bodyPartResult,        \* <<>> or <<value returned by getBodyPart>>
    oneRepMaxResult,       \* <<>> or <<value returned by calculateOneRepMax>>
    view,                  \* App state: "day" or "stats"
    isEditing,             \* App state: the WorkoutLogger is open
    customExercises,       \* App state: string[]
    storedUnitSystem,      \* localStorage item fitwise_unit_system
    selectedDate,          \* App state: the calendar day shown by the day view
    exercises,             \* WorkoutLogger state: the exercises being logged
    reads,                 \* FileReader reads of handleImportCSV in flight
    csvContent,            \* <<>> or <<the text of fitwise_export.csv>>
    roundTrip,             \* <<>> or <<the workouts of an app that imported it>>
    timeStr,               \* <<>> or <<value returned by minutesToTimeStr>>
    minutes,               \* <<>> or <<value returned by timeStrToMinutes>>
    selectedCoach,         \* AICoach state: a coach name or null
    feedback,              \* AICoach state: <<>> for null or <<the text and
                           \* the coach it was requested for>>
    loading,               \* AICoach state
    pending                \* getCoachFeedback calls that have not settled

vars == <<workouts, customBodyParts, selectedExercise, phase, lifetimeStats,
          volumeData, bodyPartData, exerciseProgressData, personalRecords,
          crazyStats, unitSystem, args, bodyPartResult, oneRepMaxResult,
          view, isEditing, customExercises, storedUnitSystem,
          selectedDate, exercises, reads,
          csvContent, roundTrip, timeStr, minutes,
          selectedCoach, feedback, loading, pending>>

statsVars == <<workouts, customBodyParts, selectedExercise, phase,
               lifetimeStats, volumeData, bodyPartData, exerciseProgressData,
               personalRecords, crazyStats, unitSystem>>

helperVars == <<args, bodyPartResult, oneRepMaxResult>>

appVars == <<view, isEditing, customExercises, storedUnitSystem>>

loggerVars == <<selectedDate, exercises, reads>>

csvVars == <<csvContent, roundTrip, timeStr, minutes>>

coachVars == <<selectedCoach, feedback, loading, pending>>

(***************************************************************************)
(* Bounds of the model.                                                    *)
(***************************************************************************)
MaxExercises == 3       \* exercises of a collection with free content
MaxLong == 17           \* workouts of a long collection (more than the window)
DateModulus == 19       \* dates are 1..DateModulus
TicksPerDay == 2        \* ticks of getTime() in one calendar day
MaxWeight == 6          \* weights 0..MaxWeight (and 100) of a direct helper call
MaxReps == 10           \* reps 0..MaxReps of a direct helper call
MaxFeatWorkouts == 2    \* workouts of a collection of logged workouts
MaxIds == 2             \* ids 1..MaxIds of the workouts the logger saves
MaxDraft == 1           \* exercises in the WorkoutLogger when one more is added
MaxReads == 1           \* FileReader reads in flight at a time
MaxStored == 2          \* workouts in the collection
MaxSeconds == 3725      \* the longest duration, in seconds, given to minutesToTimeStr

(***************************************************************************)
(* JavaScript values.                                                      *)
(***************************************************************************)
Undefined == "undefined"

Null == "null"

\* the value of obj[key]
Lookup(obj, key) == IF key \in DOMAIN obj THEN obj[key] ELSE Undefined

\* a string (or undefined) in a condition
Truthy(v) == v # Undefined /\ v # ""

\* s.field || 0 for an optional numeric field
Num(s, field) == IF field \in DOMAIN s THEN s[field] ELSE 0

\* Array.prototype.includes
Includes(seq, x) == \E i \in 1..Len(seq) : seq[i] = x

\* Math.max(...seq) of numbers >= 0; Math.max() is -Infinity
NegInfinity == 0 - 1

RECURSIVE MathMax(_)
MathMax(seq) ==
    IF seq = <<>> THEN NegInfinity
    ELSE LET m == MathMax(Tail(seq)) IN IF seq[1] >= m THEN seq[1] ELSE m

\* Math.round(num / den) for num >= 0, den > 0: floor(x + 1/2)
MathRound(num, den) == (2 * num + den) \div (2 * den)

\* String.prototype.toLowerCase on the names and the CSV headers of the model
ToLowerCase(name) ==
    CASE name = "Bench Press" -> "bench press"
      [] name = "Running" -> "running"
      [] name = "Squat" -> "squat"
      [] name = "Deadlift" -> "deadlift"
      [] name = "Overhead Press" -> "overhead press"
      [] name = "Pull Up" -> "pull up"
      [] name = "Lunges" -> "lunges"
      [] name = "Leg Press" -> "leg press"
      [] name = "Dip" -> "dip"
      [] name = "Date" -> "date"
      [] name = "Exercise" -> "exercise"
      [] name = "Category" -> "category"
      [] name = "Weight" -> "weight"
      [] name = "Weight Unit" -> "weight unit"
      [] name = "Reps" -> "reps"
      [] name = "Distance" -> "distance"
      [] name = "Distance Unit" -> "distance unit"
      [] name = "Time" -> "time"
      [] OTHER -> name

RECURSIVE SumSeq(_)
SumSeq(seq) == IF seq = <<>> THEN 0 ELSE seq[1] + SumSeq(Tail(seq))

\* One step of Array.prototype.sort(cmp), which is stable: x goes after the
\* k elements of the sorted prefix that cmp does not put after it
InsertAfter(sorted, x, k) ==
    SubSeq(sorted, 1, k) \o <<x>> \o SubSeq(sorted, k + 1, Len(sorted))

\* Array.prototype.slice(-n)
SliceLast(seq, n) ==
    IF Len(seq) <= n THEN seq ELSE SubSeq(seq, Len(seq) - n + 1, Len(seq))

(***************************************************************************)
(* types.ts                                                                *)
(***************************************************************************)
DEFAULT_EXERCISES ==
    <<"Squat", "Bench Press", "Deadlift", "Overhead Press",
      "Pull Up", "Dumbbell Row", "Lunges", "Leg Press",
      "Face Pull", "Bicep Curl", "Tricep Extension", "Lateral Raise",
      "Push Up", "Dip", "Skullcrusher", "Calf Raise", "Bulgarian Split Squat",
      "Romanian Deadlift", "Incline Bench Press", "Hammer Curl", "Preacher Curl",
      "Leg Extension", "Leg Curl", "Plank", "Crunch", "Russian Twist",
      "Hanging Leg Raise", "Cable Fly", "Lat Pulldown", "Seated Row",
      "Front Raise", "Reverse Fly", "Wrist Curl">>

DEFAULT_CARDIO_EXERCISES ==
    <<"Running", "Cycling", "Rowing", "Jump Rope", "Elliptical",
      "Stair Climber", "Swimming", "Walking", "Hiking", "Sprinting">>

BODY_PART_MAPPING ==
    ("Squat" :> "Legs") @@ ("Bench Press" :> "Chest") @@
    ("Deadlift" :> "Back") @@ ("Overhead Press" :> "Shoulders") @@
    ("Pull Up" :> "Back") @@ ("Dumbbell Row" :> "Back") @@
    ("Lunges" :> "Legs") @@ ("Leg Press" :> "Legs") @@
    ("Face Pull" :> "Shoulders") @@ ("Bicep Curl" :> "Biceps") @@
    ("Tricep Extension" :> "Triceps") @@ ("Lateral Raise" :> "Shoulders") @@
    ("Push Up" :> "Chest") @@ ("Dip" :> "Triceps") @@
    ("Skullcrusher" :> "Triceps") @@ ("Calf Raise" :> "Legs") @@
    ("Bulgarian Split Squat" :> "Legs") @@ ("Romanian Deadlift" :> "Legs") @@
    ("Incline Bench Press" :> "Chest") @@ ("Hammer Curl" :> "Biceps") @@
    ("Preacher Curl" :> "Biceps") @@ ("Leg Extension" :> "Legs") @@
    ("Leg Curl" :> "Legs") @@ ("Plank" :> "Abs") @@ ("Crunch" :> "Abs") @@
    ("Russian Twist" :> "Abs") @@ ("Hanging Leg Raise" :> "Abs") @@
    ("Cable Fly" :> "Chest") @@ ("Lat Pulldown" :> "Back") @@
    ("Seated Row" :> "Back") @@ ("Front Raise" :> "Shoulders") @@
    ("Reverse Fly" :> "Shoulders") @@ ("Wrist Curl" :> "Forearms") @@
    ("Chin Up" :> "Back")

getBodyPart_CustomFirst(exerciseName, customMapping) ==
    IF Truthy(Lookup(customMapping, exerciseName))
    THEN customMapping[exerciseName]
    ELSE IF Includes(DEFAULT_CARDIO_EXERCISES, exerciseName) THEN "Cardio"
    ELSE IF Truthy(Lookup(BODY_PART_MAPPING, exerciseName))
    THEN BODY_PART_MAPPING[exerciseName]
    ELSE "Other"

getBodyPart(exerciseName, customMapping) ==
    IF Includes(DEFAULT_CARDIO_EXERCISES, exerciseName) THEN "Cardio"
    ELSE IF Truthy(Lookup(customMapping, exerciseName))
    THEN customMapping[exerciseName]
    ELSE IF Truthy(Lookup(BODY_PART_MAPPING, exerciseName))
    THEN BODY_PART_MAPPING[exerciseName]
    ELSE "Other"

calculateOneRepMax_NoRepsGuard(weight, reps) ==
    IF reps = 1 THEN weight ELSE MathRound(weight * (30 + reps), 30)

\* weight * (1 + reps / 30) is weight * (30 + reps) / 30
calculateOneRepMax(weight, reps) ==
    IF reps = 0 THEN 0
    ELSE IF reps = 1 THEN weight
    ELSE MathRound(weight * (30 + reps), 30)

(***************************************************************************)
(* StatsView: the derived reports.                                         *)
(***************************************************************************)
\* toLocaleDateString: the calendar day of a date, without its time of day
ToLocaleDateString(date) == date \div TicksPerDay

\* all exercises of all workouts, in the order of the nested forEach
RECURSIVE AllExercises(_)
AllExercises(ws) ==
    IF Len(ws) = 0 THEN <<>>
    ELSE ws[1].exercises \o AllExercises(Tail(ws))

\* every set of the exercises exs with the type of its exercise, in the
\* order of the nested forEach of lifetimeStats
RECURSIVE SetsOfExercises(_)
SetsOfExercises(exs) ==
    IF Len(exs) = 0 THEN <<>>
    ELSE [k \in 1..Len(exs[1].sets) |-> [type |-> exs[1].type, s |-> exs[1].sets[k]]]
         \o SetsOfExercises(Tail(exs))

AllSets(ws) == SetsOfExercises(AllExercises(ws))

TotalVolume_TypeBlind(ws) ==
    LET all == AllSets(ws)
    IN SumSeq([n \in 1..Len(all) |->
           Num(all[n].s, "weight") * Num(all[n].s, "reps")])

\* totalVolume += (s.weight || 0) * (s.reps || 0), in the else branch
TotalVolume(ws) ==
    LET all == AllSets(ws)
    IN SumSeq([n \in 1..Len(all) |->
           IF all[n].type = "cardio" THEN 0
           ELSE Num(all[n].s, "weight") * Num(all[n].s, "reps")])

TotalSets_InElseBranch(ws) ==
    LET all == AllSets(ws)
    IN SumSeq([n \in 1..Len(all) |-> IF all[n].type = "cardio" THEN 0 ELSE 1])

\* totalSets += 1, after the if
TotalSets(ws) ==
    LET all == AllSets(ws)
    IN SumSeq([n \in 1..Len(all) |-> 1])

\* totalReps += s.reps || 0, in the else branch
TotalReps(ws) ==
    LET all == AllSets(ws)
    IN SumSeq([n \in 1..Len(all) |->
           IF all[n].type = "cardio" THEN 0 ELSE Num(all[n].s, "reps")])

\* totalDistance += s.distance || 0, in the cardio branch
TotalDistance(ws) ==
    LET all == AllSets(ws)
    IN SumSeq([n \in 1..Len(all) |->
           IF all[n].type = "cardio" THEN Num(all[n].s, "distance") ELSE 0])

\* totalCardioTime += s.duration || 0, in the cardio branch
TotalCardioTime(ws) ==
    LET all == AllSets(ws)
    IN SumSeq([n \in 1..Len(all) |->
           IF all[n].type = "cardio" THEN Num(all[n].s, "duration") ELSE 0])

DistinctExercises_CaseFolded(ws) ==
    LET all == AllExercises(ws)
    IN {ToLowerCase(all[n].name) : n \in 1..Len(all)}

\* the Set that distinctExercises.add(e.name) fills
DistinctExercises(ws) ==
    LET all == AllExercises(ws)
    IN {all[n].name : n \in 1..Len(all)}

CalcLifetimeStats(ws) ==
    [volume |-> TotalVolume(ws),
     sets |-> TotalSets(ws),
     reps |-> TotalReps(ws),
     distance |-> TotalDistance(ws),
     cardioTime |-> TotalCardioTime(ws),
     exercisesCount |-> Cardinality(DistinctExercises(ws)),
     workoutsCount |-> Len(ws)]

\* the volume of one workout in volumeData: the reduce over its exercises
WorkoutVolume_TypeBlind(w) ==
    SumSeq([j \in 1..Len(w.exercises) |->
        LET ex == w.exercises[j]
        IN SumSeq([k \in 1..Len(ex.sets) |->
               Num(ex.sets[k], "weight") * Num(ex.sets[k], "reps")])])

WorkoutVolume(w) ==
    SumSeq([j \in 1..Len(w.exercises) |->
        LET ex == w.exercises[j]
        IN IF ex.type = "cardio" THEN 0
           ELSE SumSeq([k \in 1..Len(ex.sets) |->
                    Num(ex.sets[k], "weight") * Num(ex.sets[k], "reps")])])

\* .sort((a, b) => new Date(a.fullDate).getTime() - new Date(b.fullDate).getTime())
RECURSIVE SortByFullDate(_)
SortByFullDate(seq) ==
    IF Len(seq) = 0 THEN <<>>
    ELSE LET sorted == SortByFullDate(SubSeq(seq, 1, Len(seq) - 1))
             x == seq[Len(seq)]
         IN InsertAfter(sorted, x,
                Cardinality({i \in 1..Len(sorted) :
                                sorted[i].fullDate - x.fullDate <= 0}))

\* the number of points volumeData keeps
VolumeWindow == 15

CalcVolumeData_SliceFirst(ws) ==
    SortByFullDate(SliceLast(
        [i \in 1..Len(ws) |->
            [date |-> ToLocaleDateString(ws[i].date),
             fullDate |-> ws[i].date,
             volume |-> WorkoutVolume(ws[i])]], VolumeWindow))

CalcVolumeData(ws) ==
    SliceLast(SortByFullDate(
        [i \in 1..Len(ws) |->
            [date |-> ToLocaleDateString(ws[i].date),
             fullDate |-> ws[i].date,
             volume |-> WorkoutVolume(ws[i])]]), VolumeWindow)

\* counts[part] = (counts[part] || 0) + n, counts kept in insertion order
AddCount(counts, part, n) ==
    IF \E c \in 1..Len(counts) : counts[c].name = part
    THEN [c \in 1..Len(counts) |->
             IF counts[c].name = part
             THEN [name |-> part, value |-> counts[c].value + n]
             ELSE counts[c]]
    ELSE Append(counts, [name |-> part, value |-> n])

BodyPartOf_ByNameOnly(e, customMapping) == getBodyPart(e.name, customMapping)

\* the label of one exercise in bodyPartData
BodyPartOf(e, customMapping) ==
    IF e.type = "cardio" THEN "Cardio" ELSE getBodyPart(e.name, customMapping)

RECURSIVE CountBodyParts_OnePerExercise(_, _)
CountBodyParts_OnePerExercise(exs, customMapping) ==
    IF Len(exs) = 0 THEN <<>>
    ELSE AddCount(CountBodyParts_OnePerExercise(SubSeq(exs, 1, Len(exs) - 1),
                                                customMapping),
                  BodyPartOf(exs[Len(exs)], customMapping), 1)

\* the counts object after the forEach over the exercises exs
RECURSIVE CountBodyParts(_, _)
CountBodyParts(exs, customMapping) ==
    IF Len(exs) = 0 THEN <<>>
    ELSE AddCount(CountBodyParts(SubSeq(exs, 1, Len(exs) - 1), customMapping),
                  BodyPartOf(exs[Len(exs)], customMapping),
                  Len(exs[Len(exs)].sets))

RECURSIVE SortByValueDesc_TiesReversed(_)
SortByValueDesc_TiesReversed(seq) ==
    IF Len(seq) = 0 THEN <<>>
    ELSE LET sorted == SortByValueDesc_TiesReversed(SubSeq(seq, 1, Len(seq) - 1))
             x == seq[Len(seq)]
         IN InsertAfter(sorted, x,
                Cardinality({i \in 1..Len(sorted) :
                                x.value - sorted[i].value < 0}))

\* .sort((a, b) => b.value - a.value)
RECURSIVE SortByValueDesc(_)
SortByValueDesc(seq) ==
    IF Len(seq) = 0 THEN <<>>
    ELSE LET sorted == SortByValueDesc(SubSeq(seq, 1, Len(seq) - 1))
             x == seq[Len(seq)]
         IN InsertAfter(sorted, x,
                Cardinality({i \in 1..Len(sorted) :
                                x.value - sorted[i].value <= 0}))

CalcBodyPartData(ws, customMapping) ==
    SortByValueDesc(CountBodyParts(AllExercises(ws), customMapping))

FindStrengthExercise(w, selected) ==
    LET hits == {j \in 1..Len(w.exercises) :
                    /\ ToLowerCase(w.exercises[j].name) = ToLowerCase(selected)
                    /\ w.exercises[j].type # "cardio"
                    /\ \E k \in 1..Len(w.exercises[j].sets) :
                           Num(w.exercises[j].sets[k], "weight") > 0}
    IN IF hits = {} THEN <<>>
       ELSE <<w.exercises[CHOOSE j \in hits : \A h \in hits : j <= h]>>

\* w.exercises.find(e => e.name.toLowerCase() === selected.toLowerCase()):
\* <<>> when there is none, else <<the first match>>
FindExercise(w, selected) ==
    LET hits == {j \in 1..Len(w.exercises) :
                    ToLowerCase(w.exercises[j].name) = ToLowerCase(selected)}
    IN IF hits = {} THEN <<>>
       ELSE <<w.exercises[CHOOSE j \in hits : \A h \in hits : j <= h]>>

\* the points one workout pushes to the progression data: none or one
ProgressPoints(w, selected) ==
    LET found == FindExercise(w, selected)
    IN IF Len(found) = 0 THEN <<>>
       ELSE LET exercise == found[1]
                maxWeight == MathMax([k \in 1..Len(exercise.sets) |->
                                 Num(exercise.sets[k], "weight")])
                best1RM == MathMax([k \in 1..Len(exercise.sets) |->
                               calculateOneRepMax(
                                   Num(exercise.sets[k], "weight"),
                                   Num(exercise.sets[k], "reps"))])
            IN IF exercise.type # "cardio" /\ maxWeight > 0
               THEN <<[date |-> ToLocaleDateString(w.date),
                       fullDate |-> w.date,
                       maxWeight |-> maxWeight,
                       oneRepMax |-> best1RM]>>
               ELSE <<>>

RECURSIVE PushProgress(_, _)
PushProgress(ws, selected) ==
    IF Len(ws) = 0 THEN <<>>
    ELSE ProgressPoints(ws[1], selected) \o PushProgress(Tail(ws), selected)

CalcExerciseProgressData_Unsorted(ws, selected) == PushProgress(ws, selected)

\* the points of all workouts, then .sort((a, b) => a.fullDate - b.fullDate)
CalcExerciseProgressData(ws, selected) ==
    SortByFullDate(PushProgress(ws, selected))

\* the best estimated 1RM of the sets of one exercise
BestOneRepMax(e) ==
    MathMax([k \in 1..Len(e.sets) |->
                calculateOneRepMax(Num(e.sets[k], "weight"),
                                   Num(e.sets[k], "reps"))])

UpdateRecord_ReplaceOnTie(records, name, best1RM, date) ==
    IF \E r \in 1..Len(records) : records[r].name = name
    THEN [r \in 1..Len(records) |->
             IF records[r].name = name /\ best1RM >= records[r].weight
             THEN [name |-> name, weight |-> best1RM, date |-> date]
             ELSE records[r]]
    ELSE Append(records, [name |-> name, weight |-> best1RM, date |-> date])

\* if (!records[e.name] || best1RM > records[e.name].weight)
\*     records[e.name] = { weight: best1RM, date: w.date }
\* with the keys of records kept in insertion order
UpdateRecord(records, name, best1RM, date) ==
    IF \E r \in 1..Len(records) : records[r].name = name
    THEN [r \in 1..Len(records) |->
             IF records[r].name = name /\ best1RM > records[r].weight
             THEN [name |-> name, weight |-> best1RM, date |-> date]
             ELSE records[r]]
    ELSE Append(records, [name |-> name, weight |-> best1RM, date |-> date])

\* the records object after the exercises exs of a workout of the given date
RECURSIVE ScanExercises(_, _, _)
ScanExercises(records, exs, date) ==
    IF Len(exs) = 0 THEN records
    ELSE ScanExercises(
             IF exs[1].type = "cardio" THEN records
             ELSE UpdateRecord(records, exs[1].name, BestOneRepMax(exs[1]), date),
             Tail(exs), date)

\* the records object after the workouts ws
RECURSIVE ScanWorkouts(_, _)
ScanWorkouts(records, ws) ==
    IF Len(ws) = 0 THEN records
    ELSE ScanWorkouts(ScanExercises(records, ws[1].exercises, ws[1].date),
                      Tail(ws))

\* .sort((a, b) => b[1].weight - a[1].weight)
RECURSIVE SortByWeightDesc(_)
SortByWeightDesc(seq) ==
    IF Len(seq) = 0 THEN <<>>
    ELSE LET sorted == SortByWeightDesc(SubSeq(seq, 1, Len(seq) - 1))
             x == seq[Len(seq)]
         IN InsertAfter(sorted, x,
                Cardinality({i \in 1..Len(sorted) :
                                x.weight - sorted[i].weight <= 0}))

\* the number of personal records shown
RecordsShown == 5

\* Array.prototype.slice(0, n)
SliceFirst_Everything(seq, n) == seq

SliceFirst(seq, n) == IF Len(seq) <= n THEN seq ELSE SubSeq(seq, 1, n)

CalcPersonalRecords(ws) ==
    SliceFirst(SortByWeightDesc(ScanWorkouts(<<>>, ws)), RecordsShown)

\* Duration (default to 60 if missing): w.durationMinutes || 60
DurationOrDefault(w) ==
    IF Num(w, "durationMinutes") # 0 THEN w.durationMinutes ELSE 60

TotalDuration(ws) == SumSeq([i \in 1..Len(ws) |-> DurationOrDefault(ws[i])])

WeekdayNames ==
    <<"Sunday", "Monday", "Tuesday", "Wednesday", "Thursday", "Friday",
      "Saturday">>

\* new Date(w.date).toLocaleDateString('en-US', { weekday: 'long' })
ToWeekday(date) == WeekdayNames[(ToLocaleDateString(date) % 7) + 1]

\* dayCounts[dayName] = (dayCounts[dayName] || 0) + 1, the keys of dayCounts
\* kept in insertion order
CountDay(dayCounts, dayName) ==
    IF \E d \in 1..Len(dayCounts) : dayCounts[d].day = dayName
    THEN [d \in 1..Len(dayCounts) |->
             IF dayCounts[d].day = dayName
             THEN [day |-> dayName, count |-> dayCounts[d].count + 1]
             ELSE dayCounts[d]]
    ELSE Append(dayCounts, [day |-> dayName, count |-> 1])

RECURSIVE DayCounts(_)
DayCounts(ws) ==
    IF Len(ws) = 0 THEN <<>>
    ELSE CountDay(DayCounts(SubSeq(ws, 1, Len(ws) - 1)),
                  ToWeekday(ws[Len(ws)].date))

\* .sort((a, b) => b[1] - a[1])
RECURSIVE SortByCountDesc(_)
SortByCountDesc(seq) ==
    IF Len(seq) = 0 THEN <<>>
    ELSE LET sorted == SortByCountDesc(SubSeq(seq, 1, Len(seq) - 1))
             x == seq[Len(seq)]
         IN InsertAfter(sorted, x,
                Cardinality({i \in 1..Len(sorted) :
                                x.count - sorted[i].count <= 0}))

FavoriteDay_LastOfSort(ws) ==
    LET sorted == SortByCountDesc(DayCounts(ws))
    IN IF Len(sorted) = 0 THEN [label |-> "None"]
       ELSE [day |-> sorted[Len(sorted)].day, count |-> sorted[Len(sorted)].count]

\* favoriteDay ? `${favoriteDay[0]} (${favoriteDay[1]})` : 'None'
FavoriteDay(ws) ==
    LET sorted == SortByCountDesc(DayCounts(ws))
    IN IF Len(sorted) = 0 THEN [label |-> "None"]
       ELSE [day |-> sorted[1].day, count |-> sorted[1].count]

NoLift_NegInfinity == [weight |-> NegInfinity, name |-> ""]

\* let maxWeight = 0; let maxWeightExercise = ''
NoLift == [weight |-> 0, name |-> ""]

HeavierOf_LaterTie(lift, s, name) ==
    IF Num(s, "weight") >= lift.weight
    THEN [weight |-> Num(s, "weight"), name |-> name]
    ELSE lift

\* if ((s.weight || 0) > maxWeight) { maxWeight = ...; maxWeightExercise = ... }
HeavierOf(lift, s, name) ==
    IF Num(s, "weight") > lift.weight
    THEN [weight |-> Num(s, "weight"), name |-> name]
    ELSE lift

RECURSIVE ScanSets(_, _, _)
ScanSets(lift, sets, name) ==
    IF Len(sets) = 0 THEN lift
    ELSE ScanSets(HeavierOf(lift, sets[1], name), Tail(sets), name)

RECURSIVE ScanLifts(_, _)
ScanLifts(lift, exs) ==
    IF Len(exs) = 0 THEN lift
    ELSE ScanLifts(IF exs[1].type # "cardio"
                   THEN ScanSets(lift, exs[1].sets, exs[1].name)
                   ELSE lift,
                   Tail(exs))

HeaviestLift(ws) == ScanLifts(NoLift, AllExercises(ws))

\* 10^digits
RECURSIVE PowerOfTen(_)
PowerOfTen(digits) == IF digits = 0 THEN 1 ELSE 10 * PowerOfTen(digits - 1)

\* (num / den).toFixed(digits) of a quotient >= 0: the decimal with that
\* many fraction digits nearest to the quotient, the greater one at a tie
\* (the double of every tie of the collections here is exact).  The
\* string is kept as its digits: "2.0" is [digits |-> 1, scaled |-> 20].
ToFixed(num, den, digits) ==
    [digits |-> digits, scaled |-> MathRound(num * PowerOfTen(digits), den)]

\* the literals of the comparison objects, as fractions
stoneWeight_MetricOnly(isMetric) == [num |-> 2500, den |-> 1]

stoneWeight(isMetric) ==
    IF isMetric THEN [num |-> 2500, den |-> 1] ELSE [num |-> 5500, den |-> 1]

tRexWeight(isMetric) ==
    IF isMetric THEN [num |-> 8000, den |-> 1] ELSE [num |-> 15000, den |-> 1]

shuttleWeight(isMetric) ==
    IF isMetric THEN [num |-> 75000, den |-> 1] ELSE [num |-> 165000, den |-> 1]

marathonDist(isMetric) ==
    IF isMetric THEN [num |-> 422, den |-> 10] ELSE [num |-> 262, den |-> 10]

channelDist(isMetric) ==
    IF isMetric THEN [num |-> 33, den |-> 1] ELSE [num |-> 21, den |-> 1]

everestDist(isMetric) ==
    IF isMetric THEN [num |-> 885, den |-> 100] ELSE [num |-> 55, den |-> 10]

\* (x / divisor).toFixed(digits)
Ratio(x, divisor, digits) == ToFixed(x * divisor.den, divisor.num, digits)

CalcCrazyStats_ConvertedLift(ws, stats, isMetric) ==
    [durationHours |-> ToFixed(TotalDuration(ws), 60, 1),
     favoriteDay |-> FavoriteDay(ws),
     heaviestLift |->
         IF isMetric THEN HeaviestLift(ws)
         ELSE [weight |-> MathRound(HeaviestLift(ws).weight * 22, 10),
               name |-> HeaviestLift(ws).name],
     pyramidStones |-> Ratio(stats.volume, stoneWeight(isMetric), 1),
     tRexs |-> Ratio(stats.volume, tRexWeight(isMetric), 2),
     spaceShuttles |-> Ratio(stats.volume, shuttleWeight(isMetric), 3),
     marathons |-> Ratio(stats.distance, marathonDist(isMetric), 1),
     englishChannels |-> Ratio(stats.distance, channelDist(isMetric), 2),
     everests |-> Ratio(stats.distance, everestDist(isMetric), 2)]

CalcCrazyStats(ws, stats, isMetric) ==
    [durationHours |-> ToFixed(TotalDuration(ws), 60, 1),
     favoriteDay |-> FavoriteDay(ws),
     heaviestLift |-> HeaviestLift(ws),
     pyramidStones |-> Ratio(stats.volume, stoneWeight(isMetric), 1),
     tRexs |-> Ratio(stats.volume, tRexWeight(isMetric), 2),
     spaceShuttles |-> Ratio(stats.volume, shuttleWeight(isMetric), 3),
     marathons |-> Ratio(stats.distance, marathonDist(isMetric), 1),
     englishChannels |-> Ratio(stats.distance, channelDist(isMetric), 2),
     everests |-> Ratio(stats.distance, everestDist(isMetric), 2)]

\* .sort() reorders the array it is called on
RECURSIVE SortInPlace(_)
SortInPlace(ws) ==
    IF Len(ws) = 0 THEN <<>>
    ELSE LET sorted == SortInPlace(SubSeq(ws, 1, Len(ws) - 1))
             x == ws[Len(ws)]
         IN InsertAfter(sorted, x,
                Cardinality({i \in 1..Len(sorted) : sorted[i].date <= x.date}))

WorkoutsAfterMemos_SortedInPlace(ws) == SortInPlace(ws)

\* the workouts array after the useMemo callbacks: volumeData sorts the
\* array that workouts.map() built and personalRecords the array that
\* Object.entries() built, forEach and map only read
WorkoutsAfterMemos(ws) == ws

(***************************************************************************)
(* The inputs: the props a StatsView is mounted with.                      *)
(***************************************************************************)
\* the strength exercises of the workouts of a long collection, in turn
LongNames ==
    <<"Squat", "Deadlift", "Overhead Press", "Pull Up", "Lunges",
      "Leg Press", "Dip">>

ExerciseNames ==
    {"Bench Press", "bench press", "Running"}
        \cup {LongNames[n] : n \in 1..Len(LongNames)}

\* exercises as the logger and the CSV import build them: a name, a type
\* that the user may have toggled, at least one set
ExercisePool ==
    { [name |-> "Bench Press", type |-> "strength",
       sets |-> << [weight |-> 100, reps |-> 10],
                   [weight |-> 3, reps |-> 5, distance |-> 2, duration |-> 30] >>],
      [name |-> "bench press", type |-> "strength",
       sets |-> << [weight |-> 0, reps |-> 5, distance |-> 0, duration |-> 0] >>],
      [name |-> "Bench Press", type |-> "cardio",
       sets |-> << [weight |-> 100, reps |-> 10, distance |-> 0, duration |-> 0] >>],
      [name |-> "Running", type |-> "cardio",
       sets |-> << [distance |-> 5, duration |-> 25],
                   [weight |-> 3, reps |-> 5, distance |-> 2, duration |-> 30] >>],
      [name |-> "Running", type |-> "strength",
       sets |-> << [weight |-> 3, reps |-> 1] >>],
      [name |-> "Squat", type |-> "strength",
       sets |-> << [weight |-> 60, reps |-> 0, distance |-> 0, duration |-> 0],
                   [reps |-> 5] >>] }

\* the date of the i-th workout of a collection whose dates advance by stride
DateAt(stride, i) == 1 + ((stride * i) % DateModulus)

\* the strides of a collection with free content: equal dates, ascending,
\* descending
FreeStrides == {0, 1, DateModulus - 1}

\* the collection whose exercises are exs, cut into workouts after the
\* positions in cuts
CutIntoWorkouts(exs, cuts, stride) ==
    LET starts == {1} \cup {c + 1 : c \in cuts}
        StartOf(n) == CHOOSE b \in starts :
                          Cardinality({t \in starts : t <= b}) = n
        EndOf(n) == IF n = Cardinality(starts) THEN Len(exs)
                    ELSE StartOf(n + 1) - 1
    IN IF Len(exs) = 0 THEN <<>>
       ELSE [n \in 1..Cardinality(starts) |->
                [id |-> n,
                 date |-> DateAt(stride, n),
                 exercises |-> SubSeq(exs, StartOf(n), EndOf(n))]]

\* the collections of m exercises in all
FreeCollectionsOf(m) ==
    { CutIntoWorkouts(exs, cuts, stride) :
        exs \in [1..m -> ExercisePool],
        cuts \in SUBSET (1..(m - 1)),
        stride \in FreeStrides }

RECURSIVE FreeCollectionsUpTo(_)
FreeCollectionsUpTo(m) ==
    IF m = 0 THEN FreeCollectionsOf(0)
    ELSE FreeCollectionsUpTo(m - 1) \cup FreeCollectionsOf(m)

FreeCollections == FreeCollectionsUpTo(MaxExercises)

\* the single exercise of the i-th workout of a long collection
LongExercise(i) ==
    IF i % 3 = 0
    THEN [name |-> "Running", type |-> "cardio",
          sets |-> << [weight |-> i, reps |-> 2, distance |-> i, duration |-> 10] >>]
    ELSE [name |-> LongNames[((i - 1) % Len(LongNames)) + 1],
          type |-> "strength",
          sets |-> << [weight |-> i, reps |-> 2, distance |-> 0, duration |-> 0] >>]

LongCollections ==
    { [i \in 1..n |-> [id |-> i,
                       date |-> DateAt(stride, i),
                       exercises |-> <<LongExercise(i)>>]] :
        n \in 0..MaxLong, stride \in 0..(DateModulus - 1) }

\* Logged workouts for the comparisons: sets of volume 1000 and 4000, a
\* cardio set that carries a weight, durations as handleSave stores them
\* (a workout saved within half a minute has durationMinutes 0; an imported
\* workout has none)
FeatExercises ==
    { << [name |-> "Deadlift", type |-> "strength",
          sets |-> << [weight |-> 100, reps |-> 10, distance |-> 0, duration |-> 0] >>] >>,
      << [name |-> "Bench Press", type |-> "strength",
          sets |-> << [weight |-> 100, reps |-> 10, distance |-> 0, duration |-> 0] >>],
         [name |-> "Running", type |-> "cardio",
          sets |-> << [weight |-> 300, reps |-> 0, distance |-> 21, duration |-> 60] >>] >>,
      << [name |-> "Squat", type |-> "strength",
          sets |-> << [weight |-> 200, reps |-> 20, distance |-> 0, duration |-> 0] >>] >> }

FeatDates == {2, 2 * TicksPerDay, 8 * TicksPerDay}

FeatDurations == {0, 45}

FeatWorkouts(id) ==
    { [id |-> id, date |-> date, exercises |-> exs] :
        date \in FeatDates, exs \in FeatExercises }
    \cup { [id |-> id, date |-> date, exercises |-> exs, durationMinutes |-> dur] :
             date \in FeatDates, exs \in FeatExercises, dur \in FeatDurations }

RECURSIVE FeatSequences(_)
FeatSequences(n) ==
    IF n = 0 THEN { <<>> }
    ELSE { Append(ws, w) : ws \in FeatSequences(n - 1), w \in FeatWorkouts(n) }

RECURSIVE FeatSequencesUpTo(_)
FeatSequencesUpTo(n) ==
    IF n = 0 THEN FeatSequences(0)
    ELSE FeatSequencesUpTo(n - 1) \cup FeatSequences(n)

FeatCollections == FeatSequencesUpTo(MaxFeatWorkouts)

UnitSystems == {"metric", "imperial"}

\* custom body parts as handleAddCustomExercise and the import store them:
\* every value is a non-empty label
CustomLabels == {"Back", "Cardio"}

NoMapping == <<>>

StatsMappings ==
    { NoMapping,
      [n \in {"Bench Press", "bench press", "Running"} |-> "Back"] }

HelperMappings ==
    UNION { [dom -> CustomLabels] :
                dom \in SUBSET {"Bench Press", "bench press", "Running"} }

HelperWeights == (0..MaxWeight) \cup {100}

HelperReps == 0..MaxReps

NoArgs == [exerciseName |-> "", customMapping |-> NoMapping,
           weight |-> 0, reps |-> 0]

NoStats == [volume |-> 0, sets |-> 0, reps |-> 0, distance |-> 0,
            cardioTime |-> 0, exercisesCount |-> 0, workoutsCount |-> 0]

\* the day view shows day 1, no WorkoutLogger is open and no file is being read
LoggerClosed ==
    /\ selectedDate = 1
    /\ exercises = <<>>
    /\ reads = <<>>

\* nothing was exported and no time helper was called
NoCsv ==
    /\ csvContent = <<>>
    /\ roundTrip = <<>>
    /\ timeStr = <<>>
    /\ minutes = <<>>

\* the state of an AICoach that was not used
NoCoach ==
    /\ selectedCoach = Null
    /\ feedback = <<>>
    /\ loading = FALSE
    /\ pending = <<>>

(***************************************************************************)
(* StatsView as a state machine: mounted with its props, rendered, and     *)
(* rendered again when the user selects another exercise.                  *)
(***************************************************************************)
InitStats ==
    /\ \/ /\ workouts \in FreeCollections
          /\ customBodyParts \in StatsMappings
       \/ /\ workouts \in LongCollections
          /\ customBodyParts = NoMapping
    /\ selectedExercise = "Bench Press"
    /\ phase = "mounted"
    /\ lifetimeStats = NoStats
    /\ volumeData = <<>>
    /\ bodyPartData = <<>>
    /\ exerciseProgressData = <<>>
    /\ personalRecords = <<>>
    /\ crazyStats = <<>>
    /\ unitSystem = "metric"
    /\ args = NoArgs
    /\ bodyPartResult = <<>>
    /\ oneRepMaxResult = <<>>
    /\ view = "stats"
    /\ isEditing = FALSE
    /\ customExercises = <<>>
    /\ storedUnitSystem = Undefined
    /\ LoggerClosed
    /\ NoCsv
    /\ NoCoach

\* the first render: every useMemo computes its value
Render ==
    /\ phase = "mounted"
    /\ phase' = "rendered"
    /\ lifetimeStats' = CalcLifetimeStats(workouts)
    /\ volumeData' = CalcVolumeData(workouts)
    /\ bodyPartData' = CalcBodyPartData(workouts, customBodyParts)
    /\ exerciseProgressData' = CalcExerciseProgressData(workouts, selectedExercise)
    /\ personalRecords' = CalcPersonalRecords(workouts)
    /\ crazyStats' = CalcCrazyStats(workouts, CalcLifetimeStats(workouts),
                                    unitSystem = "metric")
    /\ workouts' = WorkoutsAfterMemos(workouts)
    /\ UNCHANGED <<customBodyParts, selectedExercise, unitSystem>>
    /\ UNCHANGED helperVars
    /\ UNCHANGED appVars
    /\ UNCHANGED <<loggerVars, csvVars, coachVars>>

\* the names the exercise dropdown offers (availableExercises, as a set)
AvailableExercises(ws) ==
    LET all == AllExercises(ws)
    IN {all[n].name : n \in 1..Len(all)}

\* a click on a name of the dropdown, setSelectedExercise(name): the render
\* that follows recomputes the one useMemo that depends on selectedExercise
SetSelectedExercise(name) ==
    /\ phase = "rendered"
    /\ name \in AvailableExercises(workouts)
    /\ selectedExercise' = name
    /\ exerciseProgressData' = CalcExerciseProgressData(workouts, name)
    /\ UNCHANGED <<workouts, customBodyParts, phase, lifetimeStats,
                   volumeData, bodyPartData, personalRecords, crazyStats,
                   unitSystem>>
    /\ UNCHANGED helperVars
    /\ UNCHANGED appVars
    /\ UNCHANGED <<loggerVars, csvVars, coachVars>>

NextStats ==
    \/ Render
    \/ \E name \in ExerciseNames : SetSelectedExercise(name)

SpecStats == InitStats /\ [][NextStats]_vars

(***************************************************************************)
(* StatsView mounted with logged workouts under either unit system, left   *)
(* for another view and mounted again.                                     *)
(***************************************************************************)
InitFeats ==
    /\ workouts \in FeatCollections \cup LongCollections
    /\ unitSystem \in UnitSystems
    /\ customBodyParts = NoMapping
    /\ selectedExercise = "Bench Press"
    /\ phase = "mounted"
    /\ lifetimeStats = NoStats
    /\ volumeData = <<>>
    /\ bodyPartData = <<>>
    /\ exerciseProgressData = <<>>
    /\ personalRecords = <<>>
    /\ crazyStats = <<>>
    /\ args = NoArgs
    /\ bodyPartResult = <<>>
    /\ oneRepMaxResult = <<>>
    /\ view = "stats"
    /\ isEditing = FALSE
    /\ customExercises = <<>>
    /\ storedUnitSystem = Undefined
    /\ LoggerClosed
    /\ NoCsv
    /\ NoCoach

\* the view is left and opened again: a new StatsView with the same props,
\* its state back at useState('Bench Press'), every useMemo computed again
Remount ==
    /\ phase = "rendered"
    /\ selectedExercise' = "Bench Press"
    /\ lifetimeStats' = CalcLifetimeStats(workouts)
    /\ volumeData' = CalcVolumeData(workouts)
    /\ bodyPartData' = CalcBodyPartData(workouts, customBodyParts)
    /\ exerciseProgressData' = CalcExerciseProgressData(workouts, "Bench Press")
    /\ personalRecords' = CalcPersonalRecords(workouts)
    /\ crazyStats' = CalcCrazyStats(workouts, CalcLifetimeStats(workouts),
                                    unitSystem = "metric")
    /\ workouts' = WorkoutsAfterMemos(workouts)
    /\ UNCHANGED <<customBodyParts, phase, unitSystem>>
    /\ UNCHANGED helperVars
    /\ UNCHANGED appVars
    /\ UNCHANGED <<loggerVars, csvVars, coachVars>>

NextFeats ==
    \/ Render
    \/ \E name \in ExerciseNames : SetSelectedExercise(name)
    \/ Remount

SpecFeats == InitFeats /\ [][NextFeats]_vars

(***************************************************************************)
(* The helpers of types.ts called directly.                                *)
(***************************************************************************)
InitTypes ==
    /\ args \in [exerciseName : ExerciseNames,
                 customMapping : HelperMappings,
                 weight : HelperWeights,
                 reps : HelperReps]
    /\ bodyPartResult = <<>>
    /\ oneRepMaxResult = <<>>
    /\ workouts = <<>>
    /\ customBodyParts = NoMapping
    /\ selectedExercise = "Bench Press"
    /\ phase = "mounted"
    /\ lifetimeStats = NoStats
    /\ volumeData = <<>>
    /\ bodyPartData = <<>>
    /\ exerciseProgressData = <<>>
    /\ personalRecords = <<>>
    /\ crazyStats = <<>>
    /\ unitSystem = "metric"
    /\ view = "stats"
    /\ isEditing = FALSE
    /\ customExercises = <<>>
    /\ storedUnitSystem = Undefined
    /\ LoggerClosed
    /\ NoCsv
    /\ NoCoach

CallGetBodyPart ==
    /\ bodyPartResult = <<>>
    /\ bodyPartResult' = <<getBodyPart(args.exerciseName, args.customMapping)>>
    /\ UNCHANGED <<args, oneRepMaxResult>>
    /\ UNCHANGED statsVars
    /\ UNCHANGED appVars
    /\ UNCHANGED <<loggerVars, csvVars, coachVars>>

CallCalculateOneRepMax ==
    /\ oneRepMaxResult = <<>>
    /\ oneRepMaxResult' = <<calculateOneRepMax(args.weight, args.reps)>>
    /\ UNCHANGED <<args, bodyPartResult>>
    /\ UNCHANGED statsVars
    /\ UNCHANGED appVars
    /\ UNCHANGED <<loggerVars, csvVars, coachVars>>

NextTypes ==
    \/ CallGetBodyPart
    \/ CallCalculateOneRepMax

SpecTypes == InitTypes /\ [][NextTypes]_vars

(***************************************************************************)
(* App.tsx: the component that owns the collection.                        *)
(***************************************************************************)
\* Array.prototype.filter(w => w.id !== id)
RECURSIVE FilterOutId(_, _)
FilterOutId(ws, id) ==
    IF Len(ws) = 0 THEN <<>>
    ELSE IF ws[1].id # id THEN <<ws[1]>> \o FilterOutId(Tail(ws), id)
    ELSE FilterOutId(Tail(ws), id)

\* .sort((a, b) => new Date(b.date).getTime() - new Date(a.date).getTime())
RECURSIVE SortByDateDesc(_)
SortByDateDesc(ws) ==
    IF Len(ws) = 0 THEN <<>>
    ELSE LET sorted == SortByDateDesc(SubSeq(ws, 1, Len(ws) - 1))
             x == ws[Len(ws)]
         IN InsertAfter(sorted, x,
                Cardinality({i \in 1..Len(sorted) :
                                x.date - sorted[i].date <= 0}))

SavedInto_AppendOnly(ws, workout) == SortByDateDesc(Append(ws, workout))

\* the argument of setWorkouts in handleSaveWorkout
SavedInto(ws, workout) ==
    SortByDateDesc(Append(FilterOutId(ws, workout.id), workout))

\* unitSystem === 'metric' ? 'imperial' : 'metric'
NewSystem(unit) == IF unit = "metric" THEN "imperial" ELSE "metric"

\* { ...prev, [name]: bodyPart }
WithBodyPart(prev, name, bodyPart) ==
    [n \in DOMAIN prev \cup {name} |-> IF n = name THEN bodyPart ELSE prev[n]]

\* the workouts WorkoutLogger.handleSave passes to onSave: an id (that of the
\* edited workout or a new one), a date, the valid exercises and a
\* durationMinutes
LoggerDates == {2, 2 * TicksPerDay}

LoggerWorkouts ==
    { [id |-> id, date |-> date, exercises |-> exs, durationMinutes |-> 45] :
        id \in 1..MaxIds, date \in LoggerDates, exs \in FeatExercises }

\* the names the pickers pass to onAddExercise: a default exercise that is
\* not listed under the chosen body part, and a new one
PickerNames == {"Bench Press", "Burpee"}

\* the body part chosen in the ExercisePicker, or none (the picker of
\* WorkoutLogger.tsx passes the name only)
PickerBodyParts == {"", "Back"}

\* the first run of the app: nothing in localStorage
InitApp ==
    /\ view = "day"
    /\ isEditing = FALSE
    /\ workouts = <<>>
    /\ customExercises = <<>>
    /\ customBodyParts = NoMapping
    /\ unitSystem = "metric"
    /\ storedUnitSystem = Undefined
    /\ selectedExercise = "Bench Press"
    /\ phase = "unmounted"
    /\ lifetimeStats = NoStats
    /\ volumeData = <<>>
    /\ bodyPartData = <<>>
    /\ exerciseProgressData = <<>>
    /\ personalRecords = <<>>
    /\ crazyStats = <<>>
    /\ args = NoArgs
    /\ bodyPartResult = <<>>
    /\ oneRepMaxResult = <<>>
    /\ LoggerClosed
    /\ NoCsv
    /\ NoCoach

\* no StatsView is shown
StatsViewGone ==
    /\ phase' = "unmounted"
    /\ selectedExercise' = "Bench Press"
    /\ lifetimeStats' = NoStats
    /\ volumeData' = <<>>
    /\ bodyPartData' = <<>>
    /\ exerciseProgressData' = <<>>
    /\ personalRecords' = <<>>
    /\ crazyStats' = <<>>

\* <StatsView workouts={workouts} customBodyParts={customBodyParts}
\*            unitSystem={unitSystem} /> mounts and renders
StatsViewShown ==
    /\ phase' = "rendered"
    /\ selectedExercise' = "Bench Press"
    /\ lifetimeStats' = CalcLifetimeStats(workouts)
    /\ volumeData' = CalcVolumeData(workouts)
    /\ bodyPartData' = CalcBodyPartData(workouts, customBodyParts)
    /\ exerciseProgressData' = CalcExerciseProgressData(workouts, "Bench Press")
    /\ personalRecords' = CalcPersonalRecords(workouts)
    /\ crazyStats' = CalcCrazyStats(workouts, CalcLifetimeStats(workouts),
                                    unitSystem = "metric")

\* the Log / Edit button of the day view
StartEditing ==
    /\ view = "day"
    /\ ~isEditing
    /\ isEditing' = TRUE
    /\ UNCHANGED <<view, customExercises, storedUnitSystem>>
    /\ UNCHANGED statsVars
    /\ UNCHANGED helperVars
    /\ UNCHANGED <<loggerVars, csvVars, coachVars>>

\* onCancel of the WorkoutLogger
CancelEditing ==
    /\ isEditing
    /\ isEditing' = FALSE
    /\ UNCHANGED <<view, customExercises, storedUnitSystem>>
    /\ UNCHANGED statsVars
    /\ UNCHANGED helperVars
    /\ UNCHANGED <<loggerVars, csvVars, coachVars>>

\* onNavigate of the SideMenu ('home' is the day view)
Navigate(v) ==
    /\ view' = v
    /\ isEditing' = FALSE
    /\ IF v = "stats"
       THEN IF view = "stats"
            THEN UNCHANGED <<phase, selectedExercise, lifetimeStats, volumeData,
                             bodyPartData, exerciseProgressData,
                             personalRecords, crazyStats>>
            ELSE StatsViewShown
       ELSE StatsViewGone
    /\ workouts' = IF v = "stats" /\ view # "stats"
                   THEN WorkoutsAfterMemos(workouts) ELSE workouts
    /\ UNCHANGED <<customBodyParts, unitSystem, customExercises,
                   storedUnitSystem>>
    /\ UNCHANGED helperVars
    /\ UNCHANGED <<loggerVars, csvVars, coachVars>>

\* toggleUnitSystem, from the SideMenu in any view; a StatsView that is shown
\* renders again and recomputes the useMemo that depends on isMetric
ToggleUnitSystem ==
    /\ unitSystem' = NewSystem(unitSystem)
    /\ storedUnitSystem' = NewSystem(unitSystem)
    /\ crazyStats' = IF view = "stats"
                     THEN CalcCrazyStats(workouts, lifetimeStats,
                                         NewSystem(unitSystem) = "metric")
                     ELSE crazyStats
    /\ UNCHANGED <<workouts, customBodyParts, selectedExercise, phase,
                   lifetimeStats, volumeData, bodyPartData,
                   exerciseProgressData, personalRecords>>
    /\ UNCHANGED <<view, isEditing, customExercises>>
    /\ UNCHANGED helperVars
    /\ UNCHANGED <<loggerVars, csvVars, coachVars>>

\* handleSaveWorkout(workout), the onSave of the WorkoutLogger
HandleSaveWorkout(workout) ==
    /\ isEditing
    /\ workouts' = SavedInto(workouts, workout)
    /\ isEditing' = FALSE
    /\ view' = "day"
    /\ UNCHANGED <<customBodyParts, selectedExercise, phase, lifetimeStats,
                   volumeData, bodyPartData, exerciseProgressData,
                   personalRecords, crazyStats, unitSystem>>
    /\ UNCHANGED <<customExercises, storedUnitSystem>>
    /\ UNCHANGED helperVars
    /\ UNCHANGED <<loggerVars, csvVars, coachVars>>

\* handleAddCustomExercise(name, bodyPart), the onAddExercise of the
\* WorkoutLogger
HandleAddCustomExercise(name, bodyPart) ==
    /\ isEditing
    /\ customExercises' =
           IF ~Includes(customExercises, name) /\ ~Includes(DEFAULT_EXERCISES, name)
           THEN Append(customExercises, name)
           ELSE customExercises
    /\ customBodyParts' =
           IF bodyPart # "" THEN WithBodyPart(customBodyParts, name, bodyPart)
           ELSE customBodyParts
    /\ UNCHANGED <<workouts, selectedExercise, phase, lifetimeStats,
                   volumeData, bodyPartData, exerciseProgressData,
                   personalRecords, crazyStats, unitSystem>>
    /\ UNCHANGED <<view, isEditing, storedUnitSystem>>
    /\ UNCHANGED helperVars
    /\ UNCHANGED <<loggerVars, csvVars, coachVars>>

NextApp ==
    \/ StartEditing
    \/ CancelEditing
    \/ \E v \in {"day", "stats"} : Navigate(v)
    \/ ToggleUnitSystem
    \/ \E workout \in LoggerWorkouts : HandleSaveWorkout(workout)
    \/ \E name \in PickerNames, bodyPart \in PickerBodyParts :
           HandleAddCustomExercise(name, bodyPart)

SpecApp == InitApp /\ [][NextApp]_vars

(***************************************************************************)
(* App.tsx: CSV export and import.  A text is the sequence of its pieces:  *)
(* each of the characters , : " space and line feed and each decimal digit *)
(* is a piece of its own, and a run of other characters is one piece.      *)
(***************************************************************************)
\* String.prototype.split(sep)
RECURSIVE Split(_, _)
Split(text, sep) ==
    IF \A i \in 1..Len(text) : text[i] # sep THEN <<text>>
    ELSE LET i == CHOOSE j \in 1..Len(text) :
                      text[j] = sep /\ \A h \in 1..(j - 1) : text[h] # sep
         IN <<SubSeq(text, 1, i - 1)>>
                \o Split(SubSeq(text, i + 1, Len(text)), sep)

\* Array.prototype.join(sep) of texts
RECURSIVE Join(_, _)
Join(parts, sep) ==
    IF Len(parts) = 0 THEN <<>>
    ELSE IF Len(parts) = 1 THEN parts[1]
    ELSE parts[1] \o <<sep>> \o Join(Tail(parts), sep)

\* String.prototype.trim
RECURSIVE Trim(_)
Trim(text) ==
    IF Len(text) > 0 /\ text[1] = " " THEN Trim(Tail(text))
    ELSE IF Len(text) > 0 /\ text[Len(text)] = " "
    THEN Trim(SubSeq(text, 1, Len(text) - 1))
    ELSE text

\* the string a text spells
RECURSIVE StringOf(_)
StringOf(text) ==
    IF Len(text) = 0 THEN "" ELSE text[1] \o StringOf(Tail(text))

DigitChars == <<"0", "1", "2", "3", "4", "5", "6", "7", "8", "9">>

\* String(n) of an integer n >= 0, as in a template literal or a join
RECURSIVE NumberToString(_)
NumberToString(n) ==
    IF n < 10 THEN <<DigitChars[n + 1]>>
    ELSE NumberToString(n \div 10) \o <<DigitChars[(n % 10) + 1]>>

IsDigit(c) == \E d \in 1..10 : DigitChars[d] = c

\* Number(text) of a text of decimal digits; Number('') is 0
RECURSIVE ToNumber(_)
ToNumber(text) ==
    IF Len(text) = 0 THEN 0
    ELSE 10 * ToNumber(SubSeq(text, 1, Len(text) - 1))
           + (CHOOSE d \in 1..10 : DigitChars[d] = text[Len(text)]) - 1

\* parseFloat(text) || 0 for texts without sign or fraction: the number of
\* the leading digits; parseFloat is NaN when there is none, also for the
\* undefined of a missing column
ParseFloatOrZero(text) ==
    LET n == Cardinality({i \in 1..Len(text) :
                             \A h \in 1..i : IsDigit(text[h])})
    IN ToNumber(SubSeq(text, 1, n))

\* `${n < 10 ? '0' : ''}${n}`
Padded(n) == IF n < 10 THEN <<"0">> \o NumberToString(n) ELSE NumberToString(n)

\* minutesToTimeStr(minutes) for minutes = num / den, a missing duration
\* being num = 0
minutesToTimeStr(num, den) ==
    IF num = 0 THEN <<>>
    ELSE LET totalSeconds == MathRound(num * 60, den)
             hours == totalSeconds \div 3600
             mins == (totalSeconds % 3600) \div 60
             secs == totalSeconds % 60
         IN IF hours > 0
            THEN NumberToString(hours) \o <<":">> \o Padded(mins)
                     \o <<":">> \o Padded(secs)
            ELSE NumberToString(mins) \o <<":">> \o Padded(secs)

\* timeStrToMinutes(timeStr), the minutes as the fraction num / den
timeStrToMinutes(text) ==
    IF Len(text) = 0 THEN [num |-> 0, den |-> 1]
    ELSE LET split == Split(text, ":")
             parts == [i \in 1..Len(split) |-> ToNumber(split[i])]
         IN IF Len(parts) = 3
            THEN [num |-> (parts[1] * 60 + parts[2]) * 60 + parts[3], den |-> 60]
            ELSE IF Len(parts) = 2
            THEN [num |-> parts[1] * 60 + parts[2], den |-> 60]
            ELSE [num |-> 0, den |-> 1]

\* the number a fraction is when it is a whole number, else the fraction
AsNumber(f) == IF f.num % f.den = 0 THEN f.num \div f.den ELSE f

\* w.date.split('T')[0]: the calendar day of toISOString, day d of the model
\* being the d + 1st of January 2024
IsoDate(date) == <<"2024-01-">> \o Padded((date \div TicksPerDay) + 1)

\* new Date(dateStr).toISOString() of such a text: midnight of that day
NewDate(text) == (ToNumber(SubSeq(text, 2, Len(text))) - 1) * TicksPerDay

header ==
    << <<"Date">>, <<"Exercise">>, <<"Category">>, <<"Weight">>,
       <<"Weight Unit">>, <<"Reps">>, <<"Distance">>, <<"Distance Unit">>,
       <<"Time">> >>

\* n || '' in a row
NumberOrEmpty(n) == IF n = 0 THEN <<>> ELSE NumberToString(n)

\* row.join(',') for the set s of the exercise e of the workout w
ExportRow(w, e, s, customMapping, unit) ==
    Join(<< IsoDate(w.date),
            <<"\"", e.name, "\"">>,
            <<getBodyPart(e.name, customMapping)>>,
            NumberOrEmpty(Num(s, "weight")),
            IF Num(s, "weight") # 0
            THEN (IF unit = "metric" THEN <<"kgs">> ELSE <<"lbs">>) ELSE <<>>,
            NumberOrEmpty(Num(s, "reps")),
            NumberOrEmpty(Num(s, "distance")),
            IF Num(s, "distance") # 0
            THEN (IF unit = "metric" THEN <<"km">> ELSE <<"mi">>) ELSE <<>>,
            minutesToTimeStr(Num(s, "duration"), 1) >>, ",")

\* the rows of one exercise, of one workout, of the collection
ExerciseRows(w, e, customMapping, unit) ==
    [k \in 1..Len(e.sets) |-> ExportRow(w, e, e.sets[k], customMapping, unit)]

RECURSIVE WorkoutRows(_, _, _, _)
WorkoutRows(w, exs, customMapping, unit) ==
    IF Len(exs) = 0 THEN <<>>
    ELSE ExerciseRows(w, exs[1], customMapping, unit)
             \o WorkoutRows(w, Tail(exs), customMapping, unit)

RECURSIVE CollectionRows(_, _, _)
CollectionRows(ws, customMapping, unit) ==
    IF Len(ws) = 0 THEN <<>>
    ELSE WorkoutRows(ws[1], ws[1].exercises, customMapping, unit)
             \o CollectionRows(Tail(ws), customMapping, unit)

\* csvContent of exportData('csv')
ExportCsv(ws, customMapping, unit) ==
    Join(<<Join(header, ",")>> \o CollectionRows(ws, customMapping, unit), "\n")

\* headers.findIndex(h => h === name), counted from 1, 0 for -1
FindIndex(headers, name) ==
    IF \E i \in 1..Len(headers) : headers[i] = name
    THEN CHOOSE i \in 1..Len(headers) :
             headers[i] = name /\ \A h \in 1..(i - 1) : headers[h] # name
    ELSE 0

\* cols[idx], the empty text for the undefined of a missing column: trim?.(),
\* parseFloat || 0 and timeStrToMinutes treat the two alike
Cell(cols, idx) == IF idx \in 1..Len(cols) THEN cols[idx] ELSE <<>>

\* one pass of the loop over the lines; acc holds tempWorkouts in the order
\* of its keys, newCustomExercises, newCustomBodyParts and the next id
ImportRow(acc, rawLine, idx) ==
    LET line == Trim(rawLine)
        cols == Split(line, ",")
        dateStr == Trim(Cell(cols, idx.date))
        exerciseName == StringOf(Trim(Cell(cols, idx.exercise)))
        category == StringOf(Trim(Cell(cols, idx.category)))
        isCustom == category # "" /\ ~Includes(DEFAULT_EXERCISES, exerciseName)
        newCustomExercises ==
            IF isCustom /\ ~Includes(acc.newCustomExercises, exerciseName)
            THEN Append(acc.newCustomExercises, exerciseName)
            ELSE acc.newCustomExercises
        newCustomBodyParts ==
            IF isCustom
            THEN WithBodyPart(acc.newCustomBodyParts, exerciseName, category)
            ELSE acc.newCustomBodyParts
        known == \E t \in 1..Len(acc.tempWorkouts) :
                     acc.tempWorkouts[t].key = dateStr
        temp == IF known THEN acc.tempWorkouts
                ELSE Append(acc.tempWorkouts,
                         [key |-> dateStr,
                          workout |-> [id |-> acc.nextId,
                                       date |-> NewDate(dateStr),
                                       exercises |-> <<>>]])
        t == CHOOSE u \in 1..Len(temp) : temp[u].key = dateStr
        workout == temp[t].workout
        weightVal == ParseFloatOrZero(Cell(cols, idx.weight))
        distVal == ParseFloatOrZero(Cell(cols, idx.distance))
        type == IF \/ distVal > 0
                   \/ category = "Cardio"
                   \/ getBodyPart(exerciseName, newCustomBodyParts) = "Cardio"
                THEN "cardio" ELSE "strength"
        found == \E j \in 1..Len(workout.exercises) :
                     workout.exercises[j].name = exerciseName
        pushed == IF found THEN workout.exercises
                  ELSE Append(workout.exercises,
                           [name |-> exerciseName, type |-> type, sets |-> <<>>])
        j == CHOOSE h \in 1..Len(pushed) :
                 /\ pushed[h].name = exerciseName
                 /\ \A g \in 1..(h - 1) : pushed[g].name # exerciseName
        set == [weight |-> weightVal,
                reps |-> ParseFloatOrZero(Cell(cols, idx.reps)),
                distance |-> distVal,
                duration |-> AsNumber(timeStrToMinutes(Trim(Cell(cols, idx.time))))]
        exercisesAfter == [pushed EXCEPT ![j].sets = Append(@, set)]
    IN IF Len(line) = 0 \/ Len(dateStr) = 0 \/ exerciseName = "" THEN acc
       ELSE [tempWorkouts |->
                 [temp EXCEPT ![t].workout.exercises = exercisesAfter],
             newCustomExercises |-> newCustomExercises,
             newCustomBodyParts |-> newCustomBodyParts,
             nextId |-> IF known THEN acc.nextId ELSE acc.nextId + 1]

RECURSIVE ImportRows(_, _, _)
ImportRows(acc, lines, idx) ==
    IF Len(lines) = 0 THEN acc
    ELSE LET after == {ImportRow(a, lines[1], idx) : a \in {acc}}
         IN ImportRows(CHOOSE a \in after : TRUE, Tail(lines), idx)

\* what reader.onload computes from the text of the file and from the
\* customExercises and customBodyParts of the render that started the read:
\* ok is FALSE when it returns before the loop
ImportCsv(text, customExercisesThen, customBodyPartsThen, firstId) ==
    LET lines == Split(text, "\n")
        cells == Split(lines[1], ",")
        headers == [i \in 1..Len(cells) |-> ToLowerCase(StringOf(Trim(cells[i])))]
        idx == [date |-> FindIndex(headers, "date"),
                exercise |-> FindIndex(headers, "exercise"),
                category |-> FindIndex(headers, "category"),
                weight |-> FindIndex(headers, "weight"),
                reps |-> FindIndex(headers, "reps"),
                distance |-> FindIndex(headers, "distance"),
                time |-> FindIndex(headers, "time")]
        start == [tempWorkouts |-> <<>>,
                  newCustomExercises |-> customExercisesThen,
                  newCustomBodyParts |-> customBodyPartsThen,
                  nextId |-> firstId]
        done == ImportRows(start, Tail(lines), idx)
    IN IF Len(text) = 0 \/ idx.date = 0 \/ idx.exercise = 0
       THEN [ok |-> FALSE]
       ELSE [ok |-> TRUE,
             importedWorkouts |->
                 [t \in 1..Len(done.tempWorkouts) |-> done.tempWorkouts[t].workout],
             customExercises |-> done.newCustomExercises,
             customBodyParts |-> done.newCustomBodyParts,
             nextId |-> done.nextId]

ImportedInto_Unsorted(prev, importedWorkouts) == prev \o importedWorkouts

\* the argument of setWorkouts in reader.onload
ImportedInto(prev, importedWorkouts) == SortByDateDesc(prev \o importedWorkouts)

(***************************************************************************)
(* App.tsx with the WorkoutLogger and the CSV import.                      *)
(***************************************************************************)
\* the days the calendar offers, the time of day of a save and the minutes
\* the logger was open
SelectableDays == {1, 2}

SaveTicks == {1}

LoggerMinutes == {45}

\* what ExercisePicker.handleFinish passes to onComplete
PickerExercises ==
    { [name |-> "Squat", type |-> "strength",
       initialSet |-> [weight |-> 200, reps |-> 20, distance |-> 0, duration |-> 0]] }

\* the files the user picks: one written by hand with a new exercise and a
\* default one on the 3rd of January (day 2) and a blank line, and one
\* without a Date column
CsvFiles ==
    { Join(<< <<"Date", ",", " ", "Exercise", ",", "Category", ",", "Weight", ",", "Reps">>,
              <<"2024-01-", "0", "3", ",", "Plank", ",", "Abs", ",", ",", "1", "0">>,
              <<" ">>,
              <<"2024-01-", "0", "3", ",", "Squat", ",", ",", "2", "0", "0", ",", "2", "0">> >>,
           "\n"),
      Join(<< <<"Exercise", ",", "Weight">>,
              <<"Squat", ",", "1", "0", "0">> >>, "\n") }

\* what ExercisePicker.handleCreateNew passes to onAddExercise
CreatedExercises == {[name |-> "Burpee", bodyPart |-> "Back"]}

\* generateId(): an id no workout of the collection has
FreshId(ws) == MathMax([i \in 1..Len(ws) |-> ws[i].id] \o <<0>>) + 1

\* getWorkoutForSelectedDate: <<>> or <<the first workout of the day>>
getWorkoutForSelectedDate(ws, day) ==
    LET hits == {i \in 1..Len(ws) : ToLocaleDateString(ws[i].date) = day}
    IN IF hits = {} THEN <<>>
       ELSE <<ws[CHOOSE i \in hits : \A h \in hits : i <= h]>>

\* the calendar button of the header
OpenCalendar ==
    /\ view = "day"
    /\ view' = "calendar"
    /\ isEditing' = FALSE
    /\ exercises' = <<>>
    /\ UNCHANGED <<customExercises, storedUnitSystem>>
    /\ UNCHANGED <<selectedDate, reads>>
    /\ UNCHANGED <<statsVars, helperVars, csvVars, coachVars>>

\* onSelectDate of the Calendar
SelectDate(day) ==
    /\ view = "calendar"
    /\ selectedDate' = day
    /\ view' = "day"
    /\ isEditing' = FALSE
    /\ UNCHANGED <<customExercises, storedUnitSystem>>
    /\ UNCHANGED <<exercises, reads>>
    /\ UNCHANGED <<statsVars, helperVars, csvVars, coachVars>>

\* the Log Workout / Edit button: the WorkoutLogger mounts with
\* useState(initialWorkout?.exercises || [])
OpenLogger ==
    /\ view = "day"
    /\ ~isEditing
    /\ isEditing' = TRUE
    /\ LET initialWorkout == getWorkoutForSelectedDate(workouts, selectedDate)
       IN exercises' = IF Len(initialWorkout) = 0 THEN <<>>
                       ELSE initialWorkout[1].exercises
    /\ UNCHANGED <<view, customExercises, storedUnitSystem>>
    /\ UNCHANGED <<selectedDate, reads>>
    /\ UNCHANGED <<statsVars, helperVars, csvVars, coachVars>>

\* onCancel of the WorkoutLogger
CancelLogger ==
    /\ isEditing
    /\ isEditing' = FALSE
    /\ exercises' = <<>>
    /\ UNCHANGED <<view, customExercises, storedUnitSystem>>
    /\ UNCHANGED <<selectedDate, reads>>
    /\ UNCHANGED <<statsVars, helperVars, csvVars, coachVars>>

\* handleAddExerciseData(name, type, initialSet), the onComplete of the
\* ExercisePicker
HandleAddExerciseData(picked) ==
    /\ isEditing
    /\ Len(exercises) < MaxDraft
    /\ exercises' = Append(exercises, [name |-> picked.name, type |-> picked.type,
                                       sets |-> <<picked.initialSet>>])
    /\ UNCHANGED <<selectedDate, reads>>
    /\ UNCHANGED <<statsVars, helperVars, appVars, csvVars, coachVars>>

\* addExercise of WorkoutLogger.tsx: an exercise that has no name yet
AddExercise ==
    /\ isEditing
    /\ Len(exercises) < MaxDraft
    /\ exercises' = Append(exercises, [name |-> "", type |-> "strength",
                                       sets |-> <<[reps |-> 0, weight |-> 0]>>])
    /\ UNCHANGED <<selectedDate, reads>>
    /\ UNCHANGED <<statsVars, helperVars, appVars, csvVars, coachVars>>

\* removeSet(exerciseId, setId) for the k-th set of the j-th exercise
RemoveSet(j, k) ==
    /\ isEditing
    /\ j \in 1..Len(exercises)
    /\ k \in 1..Len(exercises[j].sets)
    /\ exercises' = [exercises EXCEPT ![j].sets =
                         SubSeq(@, 1, k - 1) \o SubSeq(@, k + 1, Len(@))]
    /\ UNCHANGED <<selectedDate, reads>>
    /\ UNCHANGED <<statsVars, helperVars, appVars, csvVars, coachVars>>

ValidExercises_Unfiltered(exs) == exs

\* exercises.filter(e => e.name.trim() !== '' && e.sets.length > 0)
RECURSIVE ValidExercises(_)
ValidExercises(exs) ==
    IF Len(exs) = 0 THEN <<>>
    ELSE (IF exs[1].name # "" /\ Len(exs[1].sets) > 0 THEN <<exs[1]>> ELSE <<>>)
             \o ValidExercises(Tail(exs))

\* the workout handleSave passes to onSave
WorkoutToSave(initialWorkout, targetDate, now, elapsed, validExercises, newId) ==
    IF Len(initialWorkout) = 0
    THEN [id |-> newId,
          date |-> targetDate * TicksPerDay + now,
          exercises |-> validExercises,
          durationMinutes |-> elapsed]
    ELSE [id |-> initialWorkout[1].id,
          date |-> initialWorkout[1].date,
          exercises |-> validExercises,
          durationMinutes |->
              IF Num(initialWorkout[1], "durationMinutes") # 0
              THEN initialWorkout[1].durationMinutes ELSE elapsed]

\* handleSave of the WorkoutLogger and, through onSave, handleSaveWorkout;
\* without a valid exercise it alerts and returns
HandleSave(now, elapsed) ==
    /\ isEditing
    /\ LET validExercises == ValidExercises(exercises)
           initialWorkout == getWorkoutForSelectedDate(workouts, selectedDate)
       IN IF Len(validExercises) = 0
          THEN UNCHANGED <<workouts, isEditing, view, exercises>>
          ELSE /\ Len(initialWorkout) = 0 => Len(workouts) < MaxStored
               /\ workouts' = SavedInto(workouts,
                                  WorkoutToSave(initialWorkout, selectedDate, now,
                                                elapsed, validExercises,
                                                FreshId(workouts)))
               /\ isEditing' = FALSE
               /\ view' = "day"
               /\ exercises' = <<>>
    /\ UNCHANGED <<customBodyParts, selectedExercise, phase, lifetimeStats,
                   volumeData, bodyPartData, exerciseProgressData,
                   personalRecords, crazyStats, unitSystem>>
    /\ UNCHANGED <<customExercises, storedUnitSystem, selectedDate, reads>>
    /\ UNCHANGED <<helperVars, csvVars, coachVars>>

\* handleImportCSV(file) up to reader.readAsText(file): onload closes over
\* the customExercises and customBodyParts of this render
HandleImportCSV(file) ==
    /\ Len(reads) < MaxReads
    /\ reads' = Append(reads, [text |-> file,
                               customExercises |-> customExercises,
                               customBodyParts |-> customBodyParts])
    /\ UNCHANGED <<selectedDate, exercises>>
    /\ UNCHANGED <<statsVars, helperVars, appVars, csvVars, coachVars>>

\* reader.onload of the i-th read in flight; an empty text or a missing Date
\* or Exercise column makes it return before it sets anything
Onload(i) ==
    /\ i \in 1..Len(reads)
    /\ reads' = SubSeq(reads, 1, i - 1) \o SubSeq(reads, i + 1, Len(reads))
    /\ \E result \in {ImportCsv(reads[i].text, reads[i].customExercises,
                                 reads[i].customBodyParts, FreshId(workouts))} :
           IF ~result.ok
           THEN UNCHANGED <<workouts, customExercises, customBodyParts>>
           ELSE /\ Len(workouts) + Len(result.importedWorkouts) <= MaxStored
                /\ workouts' = ImportedInto(workouts, result.importedWorkouts)
                /\ customExercises' = result.customExercises
                /\ customBodyParts' = result.customBodyParts
    /\ UNCHANGED <<selectedExercise, phase, lifetimeStats, volumeData,
                   bodyPartData, exerciseProgressData, personalRecords,
                   crazyStats, unitSystem>>
    /\ UNCHANGED <<view, isEditing, storedUnitSystem, selectedDate, exercises>>
    /\ UNCHANGED <<helperVars, csvVars, coachVars>>

\* the WorkoutLogger and the CSV import without the creation of exercises
NextLogger ==
    \/ OpenCalendar
    \/ \E day \in SelectableDays : SelectDate(day)
    \/ OpenLogger
    \/ CancelLogger
    \/ \E picked \in PickerExercises : HandleAddExerciseData(picked)
    \/ AddExercise
    \/ \E j \in 1..Len(exercises) : \E k \in 1..Len(exercises[j].sets) :
           RemoveSet(j, k)
    \/ \E now \in SaveTicks, elapsed \in LoggerMinutes : HandleSave(now, elapsed)
    \/ \E file \in CsvFiles : HandleImportCSV(file)
    \/ \E i \in 1..MaxReads : Onload(i)

SpecLogger == InitApp /\ [][NextLogger]_vars

NextImport ==
    \/ NextLogger
    \/ \E created \in CreatedExercises :
           HandleAddCustomExercise(created.name, created.bodyPart)

SpecImport == InitApp /\ [][NextImport]_vars

\* the collections that are exported, and the durations, in seconds, whose
\* time string is parsed again
CsvCollections == FeatSequencesUpTo(1) \cup FreeCollectionsUpTo(2)

TimeInputs == {[minutes |-> [num |-> sec, den |-> 60]] : sec \in 0..MaxSeconds}

InitCsv ==
    /\ \/ /\ workouts \in CsvCollections
          /\ customBodyParts \in StatsMappings
          /\ unitSystem \in UnitSystems
          /\ args \in {[minutes |-> [num |-> 0, den |-> 60]]}
       \/ /\ workouts = <<>>
          /\ customBodyParts = NoMapping
          /\ unitSystem = "metric"
          /\ args \in TimeInputs
    /\ selectedExercise = "Bench Press"
    /\ phase = "unmounted"
    /\ lifetimeStats = NoStats
    /\ volumeData = <<>>
    /\ bodyPartData = <<>>
    /\ exerciseProgressData = <<>>
    /\ personalRecords = <<>>
    /\ crazyStats = <<>>
    /\ bodyPartResult = <<>>
    /\ oneRepMaxResult = <<>>
    /\ view = "day"
    /\ isEditing = FALSE
    /\ customExercises = <<>>
    /\ storedUnitSystem = Undefined
    /\ LoggerClosed
    /\ NoCsv
    /\ NoCoach

\* exportData('csv')
ExportData ==
    /\ csvContent = <<>>
    /\ csvContent' = <<ExportCsv(workouts, customBodyParts, unitSystem)>>
    /\ UNCHANGED <<roundTrip, timeStr, minutes>>
    /\ UNCHANGED <<statsVars, helperVars, appVars, loggerVars, coachVars>>

\* handleImportCSV of the exported file and its reader.onload in an app that
\* holds no workouts and no custom exercises
ImportIntoEmptyApp ==
    /\ csvContent # <<>>
    /\ roundTrip = <<>>
    /\ \E result \in {ImportCsv(csvContent[1], <<>>, NoMapping, 1)} :
           roundTrip' = IF result.ok
                        THEN <<ImportedInto(<<>>, result.importedWorkouts)>>
                        ELSE << <<>> >>
    /\ UNCHANGED <<csvContent, timeStr, minutes>>
    /\ UNCHANGED <<statsVars, helperVars, appVars, loggerVars, coachVars>>

CallMinutesToTimeStr ==
    /\ timeStr = <<>>
    /\ timeStr' = <<minutesToTimeStr(args.minutes.num, args.minutes.den)>>
    /\ UNCHANGED <<csvContent, roundTrip, minutes>>
    /\ UNCHANGED <<statsVars, helperVars, appVars, loggerVars, coachVars>>

CallTimeStrToMinutes ==
    /\ timeStr # <<>>
    /\ minutes = <<>>
    /\ minutes' = <<timeStrToMinutes(timeStr[1])>>
    /\ UNCHANGED <<csvContent, roundTrip, timeStr>>
    /\ UNCHANGED <<statsVars, helperVars, appVars, loggerVars, coachVars>>

NextCsv ==
    \/ ExportData
    \/ ImportIntoEmptyApp
    \/ CallMinutesToTimeStr
    \/ CallTimeStrToMinutes

SpecCsv == InitCsv /\ [][NextCsv]_vars

(***************************************************************************)
(* AICoach.tsx: the evaluation view.                                       *)
(***************************************************************************)
COACHES ==
    <<"Mike Mentzer", "Arnold Schwarzenegger", "Dorian Yates", "David Goggins",
      "Ronnie Coleman">>

\* the ways a call of getCoachFeedback settles: response.text, a response
\* without text, a rejected promise
Outcomes == {"text", "empty", "rejected"}

\* the argument of setFeedback after await getCoachFeedback(coach, ...)
FeedbackAfter(coach, outcome) ==
    [coach |-> coach,
     text |-> CASE outcome = "text" -> "response.text"
                [] outcome = "empty" -> "Coach is silent today."
                [] outcome = "rejected" ->
                       "Communication failure. The gym gods are displeased."]

\* App shows <AICoach workouts={workouts} />, mounted with its useState values
InitCoach ==
    /\ view = "coach"
    /\ isEditing = FALSE
    /\ workouts \in FeatSequencesUpTo(1)
    /\ customExercises = <<>>
    /\ customBodyParts = NoMapping
    /\ unitSystem = "metric"
    /\ storedUnitSystem = Undefined
    /\ selectedExercise = "Bench Press"
    /\ phase = "unmounted"
    /\ lifetimeStats = NoStats
    /\ volumeData = <<>>
    /\ bodyPartData = <<>>
    /\ exerciseProgressData = <<>>
    /\ personalRecords = <<>>
    /\ crazyStats = <<>>
    /\ args = NoArgs
    /\ bodyPartResult = <<>>
    /\ oneRepMaxResult = <<>>
    /\ LoggerClosed
    /\ NoCsv
    /\ NoCoach

\* onClick of a coach button; the buttons are never disabled
SelectCoach(name) ==
    /\ view = "coach"
    /\ selectedCoach' = name
    /\ feedback' = <<>>
    /\ UNCHANGED <<loading, pending>>
    /\ UNCHANGED <<statsVars, helperVars, appVars, loggerVars, csvVars>>

\* handleEvaluate up to its await; the Summon Coach button is disabled while
\* no coach is selected or loading is true
HandleEvaluate ==
    /\ view = "coach"
    /\ selectedCoach # Null
    /\ ~loading
    /\ loading' = TRUE
    /\ feedback' = <<>>
    /\ pending' = Append(pending, selectedCoach)
    /\ UNCHANGED selectedCoach
    /\ UNCHANGED <<statsVars, helperVars, appVars, loggerVars, csvVars>>

\* handleEvaluate from its await on, when the i-th pending call settles: the
\* try or the catch branch, then finally
Settle(i, outcome) ==
    /\ view = "coach"
    /\ i \in 1..Len(pending)
    /\ feedback' = <<FeedbackAfter(pending[i], outcome)>>
    /\ loading' = FALSE
    /\ pending' = SubSeq(pending, 1, i - 1) \o SubSeq(pending, i + 1, Len(pending))
    /\ UNCHANGED selectedCoach
    /\ UNCHANGED <<statsVars, helperVars, appVars, loggerVars, csvVars>>

\* the view is left and entered again: a new AICoach with its initial state;
\* what a call of the old one sets when it settles is never rendered
RemountCoach ==
    /\ view = "coach"
    /\ selectedCoach' = Null
    /\ feedback' = <<>>
    /\ loading' = FALSE
    /\ pending' = <<>>
    /\ UNCHANGED <<statsVars, helperVars, appVars, loggerVars, csvVars>>

NextCoach ==
    \/ \E i \in 1..Len(COACHES) : SelectCoach(COACHES[i])
    \/ HandleEvaluate
    \/ \E i \in 1..Len(pending), outcome \in Outcomes : Settle(i, outcome)
    \/ RemountCoach

SpecCoach == InitCoach /\ [][NextCoach]_vars

Init == InitStats

Next == NextStats

Spec == SpecStats

(***************************************************************************)
(* Properties.                                                             *)
(***************************************************************************)
Abs(x) == IF x < 0 THEN 0 - x ELSE x

Min(a, b) == IF a <= b THEN a ELSE b

CardioNames == {DEFAULT_CARDIO_EXERCISES[i] : i \in 1..Len(DEFAULT_CARDIO_EXERCISES)}

\* the sum of the values of a function with a finite domain
RECURSIVE SumFn(_)
SumFn(f) ==
    IF DOMAIN f = {} THEN 0
    ELSE LET x == CHOOSE y \in DOMAIN f : TRUE
         IN f[x] + SumFn([y \in DOMAIN f \ {x} |-> f[y]])

\* the positions <<workout, exercise>> and <<workout, exercise, set>> of the
\* collection
ExercisePositions ==
    UNION { {<<i, j>> : j \in 1..Len(workouts[i].exercises)} :
                i \in 1..Len(workouts) }

SetPositions ==
    UNION { {<<p[1], p[2], k>> :
                k \in 1..Len(workouts[p[1]].exercises[p[2]].sets)} :
                p \in ExercisePositions }

ExerciseAt(p) == workouts[p[1]].exercises[p[2]]

SetAt(t) == workouts[t[1]].exercises[t[2]].sets[t[3]]

StrengthSets == {t \in SetPositions : ExerciseAt(t).type = "strength"}

CardioSets == {t \in SetPositions : ExerciseAt(t).type = "cardio"}

\* the value of an optional field of a set, 0 when the set lacks it
FieldOf(t, field) == IF field \in DOMAIN SetAt(t) THEN SetAt(t)[field] ELSE 0

Dates == 1..DateModulus

\* C1: getBodyPart returns "Cardio" for a name of the cardio list even when
\* the custom mapping has an entry for it, otherwise the custom mapping's
\* value when it contains the name, otherwise the built-in dictionary's
\* value when it contains the name, otherwise "Other".
C1_Precedence ==
    bodyPartResult # <<>> =>
        LET name == args.exerciseName
            custom == args.customMapping
            part == bodyPartResult[1]
        IN /\ name \in CardioNames => part = "Cardio"
           /\ name \notin CardioNames /\ name \in DOMAIN custom
                  => part = custom[name]
           /\ name \notin CardioNames /\ name \notin DOMAIN custom
                  /\ name \in DOMAIN BODY_PART_MAPPING
                  => part = BODY_PART_MAPPING[name]
           /\ name \notin CardioNames /\ name \notin DOMAIN custom
                  /\ name \notin DOMAIN BODY_PART_MAPPING
                  => part = "Other"
           /\ name = "Running" => part = "Cardio"
           /\ name = "Bench Press" /\ custom = NoMapping => part = "Chest"
           /\ name = "bench press" /\ custom = NoMapping => part = "Other"

\* a cardio name with a custom entry that says otherwise was classified
C1_Witness ==
    /\ bodyPartResult = <<"Cardio">>
    /\ args.exerciseName = "Running"
    /\ "Running" \in DOMAIN args.customMapping
    /\ args.customMapping["Running"] = "Back"

\* C2: calculateOneRepMax(weight, reps) is 0 when reps = 0, weight when
\* reps = 1, otherwise an integer nearest to weight * (1 + reps / 30); and
\* calculateOneRepMax(100, 10) = 133.
C2_OneRepMax ==
    oneRepMaxResult # <<>> =>
        LET w == args.weight
            r == args.reps
            v == oneRepMaxResult[1]
        IN /\ r = 0 => v = 0
           /\ r = 1 => v = w
           /\ r > 1 => 2 * Abs(30 * v - w * (30 + r)) <= 30
           /\ w = 100 /\ r = 10 => v = 133

C2_Witness ==
    /\ oneRepMaxResult = <<133>>
    /\ args.weight = 100
    /\ args.reps = 10

\* C3: the lifetime total of sets is the number of sets of all exercises of
\* all workouts, of either type.
C3_TotalSets ==
    phase = "rendered" =>
        /\ lifetimeStats.sets = Cardinality(SetPositions)
        /\ lifetimeStats.sets =
               SumFn([p \in ExercisePositions |-> Len(ExerciseAt(p).sets)])

\* sets of both types, some of them with fields missing, were counted
C3_Witness ==
    /\ phase = "rendered"
    /\ lifetimeStats.sets = 4
    /\ CardioSets # {}
    /\ StrengthSets # {}
    /\ \E t \in SetPositions : "weight" \notin DOMAIN SetAt(t)

\* C4: cardio sets add their distance and duration to totalDistance and
\* totalCardioMinutes and nothing to totalVolume and totalReps; strength
\* sets add weight * reps to totalVolume and reps to totalReps and nothing
\* to totalDistance and totalCardioMinutes; a missing field counts as 0.
C4_TypeSplit ==
    phase = "rendered" =>
        /\ lifetimeStats.volume =
               SumFn([t \in StrengthSets |->
                         FieldOf(t, "weight") * FieldOf(t, "reps")])
        /\ lifetimeStats.reps = SumFn([t \in StrengthSets |-> FieldOf(t, "reps")])
        /\ lifetimeStats.distance =
               SumFn([t \in CardioSets |-> FieldOf(t, "distance")])
        /\ lifetimeStats.cardioTime =
               SumFn([t \in CardioSets |-> FieldOf(t, "duration")])

\* a cardio set that carries weight and reps and a strength set that carries
\* distance and duration went into the totals
C4_Witness ==
    /\ phase = "rendered"
    /\ \E t \in CardioSets : FieldOf(t, "weight") * FieldOf(t, "reps") > 0
    /\ \E t \in StrengthSets :
           FieldOf(t, "distance") > 0 /\ FieldOf(t, "duration") > 0
    /\ lifetimeStats.volume > 0
    /\ lifetimeStats.distance > 0

\* C5: distinctExerciseCount is the number of distinct exercise names of the
\* whole collection, compared case-sensitively: a repeated name counts once,
\* two names that differ only in letter case count as two.
C5_DistinctNames ==
    phase = "rendered" =>
        lifetimeStats.exercisesCount =
            Cardinality({name \in ExerciseNames :
                \E p \in ExercisePositions : ExerciseAt(p).name = name})

\* a name that occurs in two workouts and a second name that differs from it
\* only in case
C5_Witness ==
    /\ phase = "rendered"
    /\ lifetimeStats.exercisesCount = 2
    /\ \E p, q \in ExercisePositions :
           /\ p[1] # q[1]
           /\ ExerciseAt(p).name = "Bench Press"
           /\ ExerciseAt(q).name = "Bench Press"
    /\ \E p \in ExercisePositions : ExerciseAt(p).name = "bench press"

\* C6: the volume series is ascending in the workouts' timestamps and holds
\* the min(n, 15) latest of the n workouts, in whatever order they are given:
\* no workout of the series is older than one that was left out.
C6_LatestWindow ==
    phase = "rendered" =>
        /\ Len(volumeData) = Min(Len(workouts), 15)
        /\ \A k, l \in 1..Len(volumeData) :
               k < l => volumeData[k].fullDate <= volumeData[l].fullDate
        /\ \A d \in Dates :
               Cardinality({k \in 1..Len(volumeData) :
                               volumeData[k].fullDate >= d})
                 = Min(15, Cardinality({i \in 1..Len(workouts) :
                                           workouts[i].date >= d}))

\* more than 15 workouts, and one of the first in the given order is later
\* than one of the last 15
C6_Witness ==
    /\ phase = "rendered"
    /\ Len(workouts) > 15
    /\ Len(volumeData) = 15
    /\ \E i, j \in 1..Len(workouts) :
           /\ i <= Len(workouts) - 15
           /\ j > Len(workouts) - 15
           /\ workouts[i].date > workouts[j].date

\* the volume of a workout counted from its strength sets alone
StrengthVolumeOf(i) ==
    SumFn([t \in {u \in StrengthSets : u[1] = i} |->
              FieldOf(t, "weight") * FieldOf(t, "reps")])

\* C7: a point of the volume series carries the sum of weight * reps over the
\* sets of the strength exercises of its workout; cardio exercises add
\* nothing, so a collection of cardio exercises only has volumes all 0.
C7_StrengthVolumeOnly ==
    phase = "rendered" =>
        /\ \A k \in 1..Len(volumeData) :
               Cardinality({l \in 1..Len(volumeData) :
                               /\ volumeData[l].fullDate = volumeData[k].fullDate
                               /\ volumeData[l].volume = volumeData[k].volume})
                 <= Cardinality({i \in 1..Len(workouts) :
                               /\ workouts[i].date = volumeData[k].fullDate
                               /\ StrengthVolumeOf(i) = volumeData[k].volume})
        /\ StrengthSets = {} =>
               \A k \in 1..Len(volumeData) : volumeData[k].volume = 0

\* a collection of cardio exercises only, whose sets carry weight and reps
C7_Witness ==
    /\ phase = "rendered"
    /\ Len(volumeData) >= 2
    /\ StrengthSets = {}
    /\ \E t \in CardioSets : FieldOf(t, "weight") * FieldOf(t, "reps") > 0
    /\ \A k \in 1..Len(volumeData) : volumeData[k].volume = 0

\* C8: the set counts of the body-part distribution add up to the lifetime
\* total of sets, and no label occurs twice.
C8_DistributionSum ==
    phase = "rendered" =>
        /\ SumFn([k \in 1..Len(bodyPartData) |-> bodyPartData[k].value])
               = lifetimeStats.sets
        /\ \A k, l \in 1..Len(bodyPartData) :
               bodyPartData[k].name = bodyPartData[l].name => k = l

\* several labels, one of them from the custom mapping, and an exercise
\* with two sets
C8_Witness ==
    /\ phase = "rendered"
    /\ Len(bodyPartData) >= 3
    /\ \E k \in 1..Len(bodyPartData) : bodyPartData[k].name = "Back"
    /\ \E p \in ExercisePositions : Len(ExerciseAt(p).sets) = 2
    /\ lifetimeStats.sets >= 4

Labels ==
    {"Abs", "Back", "Biceps", "Chest", "Forearms", "Legs", "Shoulders",
     "Triceps", "Cardio", "Other"}

\* the set count the body-part distribution shows for a label
CountShown(label) ==
    SumFn([k \in {l \in 1..Len(bodyPartData) : bodyPartData[l].name = label}
              |-> bodyPartData[k].value])

\* C9 as stated: every exercise's sets are counted under
\* getBodyPart(name, customMapping), whatever the type of the exercise.
C9_LabelIsByName ==
    phase = "rendered" =>
        \A label \in Labels :
            CountShown(label) =
                SumFn([p \in {q \in ExercisePositions :
                                 getBodyPart(ExerciseAt(q).name, customBodyParts)
                                     = label}
                          |-> Len(ExerciseAt(p).sets)])

\* C9: the sets of a cardio-type exercise are counted under "Cardio" whatever
\* its name, the sets of a strength-type exercise under
\* getBodyPart(name, customMapping).
C9_LabelByTypeThenName ==
    phase = "rendered" =>
        \A label \in Labels :
            CountShown(label) =
                SumFn([p \in {q \in ExercisePositions :
                                 \/ /\ ExerciseAt(q).type = "cardio"
                                    /\ label = "Cardio"
                                 \/ /\ ExerciseAt(q).type = "strength"
                                    /\ getBodyPart(ExerciseAt(q).name,
                                                   customBodyParts) = label}
                          |-> Len(ExerciseAt(p).sets)])

\* a cardio-type exercise whose name is not a cardio name, and a strength
\* exercise with a custom label
C9_Witness ==
    /\ phase = "rendered"
    /\ \E p \in ExercisePositions :
           /\ ExerciseAt(p).type = "cardio"
           /\ ExerciseAt(p).name = "Bench Press"
    /\ \E p \in ExercisePositions :
           /\ ExerciseAt(p).type = "strength"
           /\ ExerciseAt(p).name \in DOMAIN customBodyParts
    /\ CountShown("Cardio") > 0
    /\ CountShown("Back") > 0

\* exercise j of workout i matches the selected name, is not cardio and has
\* a set with a weight above 0
Counts(i, j) ==
    LET e == workouts[i].exercises[j]
    IN /\ ToLowerCase(e.name) = ToLowerCase(selectedExercise)
       /\ e.type # "cardio"
       /\ \E k \in 1..Len(e.sets) :
              "weight" \in DOMAIN e.sets[k] /\ e.sets[k].weight > 0

Matches(i, j) ==
    ToLowerCase(workouts[i].exercises[j].name) = ToLowerCase(selectedExercise)

\* C10 as stated: one point for each workout that contains a matching,
\* non-cardio exercise with a weight above 0, no point for another workout.
C10_PointPerContainingWorkout ==
    phase = "rendered" =>
        \A d \in Dates :
            Cardinality({k \in 1..Len(exerciseProgressData) :
                            exerciseProgressData[k].fullDate = d})
              = Cardinality({i \in 1..Len(workouts) :
                    /\ workouts[i].date = d
                    /\ \E j \in 1..Len(workouts[i].exercises) : Counts(i, j)})

\* C10: one point for each workout whose first exercise that matches the
\* selected name case-insensitively is not cardio and has a set weight above
\* 0, no point for another workout; no such workout, an empty series.
C10_PointPerFirstMatch ==
    phase = "rendered" =>
        /\ \A d \in Dates :
               Cardinality({k \in 1..Len(exerciseProgressData) :
                               exerciseProgressData[k].fullDate = d})
                 = Cardinality({i \in 1..Len(workouts) :
                       /\ workouts[i].date = d
                       /\ \E j \in 1..Len(workouts[i].exercises) :
                              /\ Counts(i, j)
                              /\ \A h \in 1..(j - 1) : ~Matches(i, h)})
        /\ (\A p \in ExercisePositions : ~Counts(p[1], p[2]))
               => exerciseProgressData = <<>>

\* a name selected in another letter case; one workout gave a point, one
\* whose matching exercise has weight 0 on every set gave none
C10_Witness ==
    /\ phase = "rendered"
    /\ selectedExercise = "bench press"
    /\ Len(workouts) = 2
    /\ Len(exerciseProgressData) = 1
    /\ exerciseProgressData[1].maxWeight = 100
    /\ \E i \in 1..Len(workouts) :
           /\ workouts[i].exercises[1].name = "Bench Press"
           /\ workouts[i].exercises[1].type = "strength"
    /\ \E i \in 1..Len(workouts) :
           /\ workouts[i].exercises[1].name = "bench press"
           /\ \A k \in 1..Len(workouts[i].exercises[1].sets) :
                  FieldOf(<<i, 1, k>>, "weight") = 0

\* the positions of the non-cardio exercises with a given name
NonCardioNamed(name) ==
    {p \in ExercisePositions :
        ExerciseAt(p).type # "cardio" /\ ExerciseAt(p).name = name}

NonCardioNames == {name \in ExerciseNames : NonCardioNamed(name) # {}}

\* the estimated 1RM of the set at position t
OneRepMaxAt(t) == calculateOneRepMax(FieldOf(t, "weight"), FieldOf(t, "reps"))

\* v is the greatest estimated 1RM of the sets of the exercises at positions ps
IsBestOf(v, ps) ==
    /\ \E t \in SetPositions : <<t[1], t[2]>> \in ps /\ OneRepMaxAt(t) = v
    /\ \A t \in SetPositions : <<t[1], t[2]>> \in ps => OneRepMaxAt(t) <= v

\* C11: the personal records have at most 5 entries in descending order of
\* best estimated 1RM, min(5, k) entries for k distinct non-cardio exercise
\* names, one entry per name, and the value of an entry is the greatest
\* calculateOneRepMax(weight, reps) over all sets of all non-cardio
\* exercises of that name.
C11_TopFiveRecords ==
    phase = "rendered" =>
        /\ Len(personalRecords) <= 5
        /\ Len(personalRecords) = Min(5, Cardinality(NonCardioNames))
        /\ \A k, l \in 1..Len(personalRecords) :
               /\ k < l => personalRecords[k].weight >= personalRecords[l].weight
               /\ personalRecords[k].name = personalRecords[l].name => k = l
        /\ \A k \in 1..Len(personalRecords) :
               /\ personalRecords[k].name \in NonCardioNames
               /\ IsBestOf(personalRecords[k].weight,
                           NonCardioNamed(personalRecords[k].name))

\* more than five non-cardio names, five records shown
C11_Witness ==
    /\ phase = "rendered"
    /\ Cardinality(NonCardioNames) > 5
    /\ Len(personalRecords) = 5
    /\ personalRecords[1].weight > personalRecords[5].weight

\* the best estimated 1RM of the exercise at position p
BestAt(p) ==
    CHOOSE v \in {OneRepMaxAt(t) : t \in {u \in SetPositions : <<u[1], u[2]>> = p}} :
        IsBestOf(v, {p})

\* C12: a record is replaced only by a strictly greater best estimated 1RM,
\* so the date of a record is the date of the first workout in scan order in
\* which the exercise reached the recorded value.
C12_FirstScannedKeepsRecord ==
    phase = "rendered" =>
        \A k \in 1..Len(personalRecords) :
            LET hits == {p \in NonCardioNamed(personalRecords[k].name) :
                            BestAt(p) = personalRecords[k].weight}
                first == CHOOSE p \in hits : \A q \in hits : p[1] <= q[1]
            IN personalRecords[k].date = workouts[first[1]].date

\* two workouts with different dates tie for an exercise's best value and
\* the record has the date of the one scanned first
C12_Witness ==
    /\ phase = "rendered"
    /\ \E k \in 1..Len(personalRecords) :
           \E p, q \in NonCardioNamed(personalRecords[k].name) :
               /\ p[1] < q[1]
               /\ BestAt(p) = personalRecords[k].weight
               /\ BestAt(q) = personalRecords[k].weight
               /\ workouts[p[1]].date # workouts[q[1]].date
               /\ personalRecords[k].date = workouts[p[1]].date

\* feat is the decimal with the given number of fraction digits (scale is
\* 10^digits) nearest to x / (num / den)
IsRatio(feat, x, num, den, digits, scale) ==
    /\ feat.digits = digits
    /\ num # 0
    /\ 2 * Abs(feat.scaled * num - x * den * scale) <= num

\* C13: each mass feat is lifetimeStats.volume divided by the literal of the
\* active unit system (stone 2500 / 5500, T-Rex 8000 / 15000, shuttle
\* 75000 / 165000), each distance feat lifetimeStats.distance divided by
\* its literal (marathon 42.2 / 26.2, channel 33 / 21, Everest 8.85 / 5.5),
\* all six taken from the same unit system, no divisor zero; a volume of
\* 5000 under metric gives the pyramid-stone feat "2.0".
C13_FeatRatios ==
    phase = "rendered" =>
        LET v == lifetimeStats.volume
            d == lifetimeStats.distance
        IN /\ unitSystem = "metric" =>
                  /\ IsRatio(crazyStats.pyramidStones, v, 2500, 1, 1, 10)
                  /\ IsRatio(crazyStats.tRexs, v, 8000, 1, 2, 100)
                  /\ IsRatio(crazyStats.spaceShuttles, v, 75000, 1, 3, 1000)
                  /\ IsRatio(crazyStats.marathons, d, 422, 10, 1, 10)
                  /\ IsRatio(crazyStats.englishChannels, d, 33, 1, 2, 100)
                  /\ IsRatio(crazyStats.everests, d, 885, 100, 2, 100)
           /\ unitSystem # "metric" =>
                  /\ IsRatio(crazyStats.pyramidStones, v, 5500, 1, 1, 10)
                  /\ IsRatio(crazyStats.tRexs, v, 15000, 1, 2, 100)
                  /\ IsRatio(crazyStats.spaceShuttles, v, 165000, 1, 3, 1000)
                  /\ IsRatio(crazyStats.marathons, d, 262, 10, 1, 10)
                  /\ IsRatio(crazyStats.englishChannels, d, 21, 1, 2, 100)
                  /\ IsRatio(crazyStats.everests, d, 55, 10, 2, 100)
           /\ (unitSystem = "metric" /\ v = 5000) =>
                  crazyStats.pyramidStones = [digits |-> 1, scaled |-> 20]

\* a volume of 5000 and a distance of 21 under metric: "2.0" stones, "0.5"
\* marathons
C13_Witness ==
    /\ phase = "rendered"
    /\ unitSystem = "metric"
    /\ lifetimeStats.volume = 5000
    /\ lifetimeStats.distance = 21
    /\ crazyStats.pyramidStones.scaled = 20
    /\ crazyStats.marathons.scaled = 5

\* the minutes a workout stands for when only a missing durationMinutes is
\* replaced by 60
RecordedMinutes(w) ==
    IF "durationMinutes" \in DOMAIN w THEN w.durationMinutes ELSE 60

\* C14: the total time in hours is the sum over the workouts of
\* durationMinutes, with 60 for a workout that has none, divided by 60; a
\* recorded durationMinutes, also a recorded 0, counts as recorded.
C14_RecordedDurationCounts ==
    phase = "rendered" =>
        IsRatio(crazyStats.durationHours,
                SumFn([i \in 1..Len(workouts) |-> RecordedMinutes(workouts[i])]),
                60, 1, 1, 10)

\* the indices of the workouts of a weekday
WorkoutsOn(day) ==
    {i \in 1..Len(workouts) : ToWeekday(workouts[i].date) = day}

Weekdays == {WeekdayNames[n] : n \in 1..Len(WeekdayNames)}

\* the index of the first workout of a weekday that has workouts
FirstOn(day) ==
    CHOOSE i \in WorkoutsOn(day) : \A j \in WorkoutsOn(day) : i <= j

\* C15: the favorite day is a weekday with the highest count of workouts,
\* shown with that count; of several weekdays with the highest count it is
\* the one met first in the pass over the workouts.
C15_FavoriteDay ==
    (phase = "rendered" /\ Len(workouts) > 0) =>
        LET fav == crazyStats.favoriteDay
        IN /\ DOMAIN fav = {"day", "count"}
           /\ fav.day \in Weekdays
           /\ fav.count = Cardinality(WorkoutsOn(fav.day))
           /\ \A day \in Weekdays :
                  /\ Cardinality(WorkoutsOn(day)) <= fav.count
                  /\ (day # fav.day /\ Cardinality(WorkoutsOn(day)) = fav.count)
                         => FirstOn(fav.day) < FirstOn(day)

\* two weekdays tie for the highest count and the one met first is shown,
\* although the other one was the first to reach that count
C15_Witness ==
    /\ phase = "rendered"
    /\ Len(workouts) > 0
    /\ \E day \in Weekdays :
           /\ day # crazyStats.favoriteDay.day
           /\ Cardinality(WorkoutsOn(day)) = crazyStats.favoriteDay.count
           /\ crazyStats.favoriteDay.count > 1
           /\ FirstOn(crazyStats.favoriteDay.day) < FirstOn(day)
           /\ \E n \in 1..Len(workouts) :
                  /\ Cardinality({i \in WorkoutsOn(day) : i <= n})
                         = crazyStats.favoriteDay.count
                  /\ Cardinality({i \in WorkoutsOn(crazyStats.favoriteDay.day) : i <= n})
                         < crazyStats.favoriteDay.count

\* the positions of the sets of the exercises that are not cardio-type, and
\* their order in the scan
LiftSets == {t \in SetPositions : ExerciseAt(<<t[1], t[2]>>).type # "cardio"}

ScannedBefore(t, u) ==
    \/ t[1] < u[1]
    \/ t[1] = u[1] /\ t[2] < u[2]
    \/ t[1] = u[1] /\ t[2] = u[2] /\ t[3] < u[3]

\* C16: the heaviest lift is the greatest weight of the sets of the
\* strength-type exercises (0 when there is none), weights of cardio-type
\* exercises ignored, and its name is the name of the exercise of the first
\* set in scan order that has this weight.
C16_HeaviestLift ==
    phase = "rendered" =>
        LET lift == crazyStats.heaviestLift
        IN /\ \A t \in LiftSets : FieldOf(t, "weight") <= lift.weight
           /\ lift.weight > 0 =>
                  \E t \in LiftSets :
                      /\ FieldOf(t, "weight") = lift.weight
                      /\ ExerciseAt(<<t[1], t[2]>>).name = lift.name
                      /\ \A u \in LiftSets :
                             FieldOf(u, "weight") = lift.weight
                                 => (u = t \/ ScannedBefore(t, u))
           /\ lift.weight = 0 => lift.name = ""

\* a later set of another exercise has the same weight and a cardio-type
\* set a greater one
C16_Witness ==
    /\ phase = "rendered"
    /\ crazyStats.heaviestLift.weight > 0
    /\ \E t, u \in LiftSets :
           /\ ScannedBefore(t, u)
           /\ FieldOf(t, "weight") = crazyStats.heaviestLift.weight
           /\ FieldOf(u, "weight") = crazyStats.heaviestLift.weight
           /\ ExerciseAt(<<t[1], t[2]>>).name = crazyStats.heaviestLift.name
           /\ ExerciseAt(<<u[1], u[2]>>).name # crazyStats.heaviestLift.name
    /\ \E c \in SetPositions \ LiftSets :
           FieldOf(c, "weight") > crazyStats.heaviestLift.weight

\* C17: for an empty workout collection every report is zero or empty: the
\* lifetime totals are all 0, the volume series, the body-part
\* distribution, the progression series and the personal records are
\* empty, the hours and every feat ratio are zero, the heaviest lift is 0
\* and the favorite day is 'None'.
C17_EmptyCollection ==
    (phase = "rendered" /\ Len(workouts) = 0) =>
        /\ lifetimeStats = [volume |-> 0, sets |-> 0, reps |-> 0,
                            distance |-> 0, cardioTime |-> 0,
                            exercisesCount |-> 0, workoutsCount |-> 0]
        /\ volumeData = <<>>
        /\ bodyPartData = <<>>
        /\ exerciseProgressData = <<>>
        /\ personalRecords = <<>>
        /\ crazyStats.durationHours.scaled = 0
        /\ crazyStats.pyramidStones.scaled = 0
        /\ crazyStats.tRexs.scaled = 0
        /\ crazyStats.spaceShuttles.scaled = 0
        /\ crazyStats.marathons.scaled = 0
        /\ crazyStats.englishChannels.scaled = 0
        /\ crazyStats.everests.scaled = 0
        /\ crazyStats.heaviestLift = [weight |-> 0, name |-> ""]
        /\ crazyStats.favoriteDay = [label |-> "None"]

\* the reports of an empty collection have been computed
C17_Witness ==
    /\ phase = "rendered"
    /\ Len(workouts) = 0
    /\ unitSystem = "imperial"
    /\ DOMAIN crazyStats # {}

Reports ==
    <<lifetimeStats, volumeData, bodyPartData, exerciseProgressData,
      personalRecords, crazyStats>>

C19_UnitSystemOnlyScalesFeats ==
    [][/\ ToggleUnitSystem =>
              \/ unitSystem = "metric" /\ unitSystem' = "imperial"
              \/ unitSystem = "imperial" /\ unitSystem' = "metric"
       /\ unitSystem' # unitSystem =>
              /\ workouts' = workouts
              /\ customExercises' = customExercises
              /\ customBodyParts' = customBodyParts
              /\ lifetimeStats' = lifetimeStats
              /\ volumeData' = volumeData
              /\ bodyPartData' = bodyPartData
              /\ exerciseProgressData' = exerciseProgressData
              /\ personalRecords' = personalRecords
              /\ phase = "rendered" =>
                     /\ crazyStats'.durationHours = crazyStats.durationHours
                     /\ crazyStats'.favoriteDay = crazyStats.favoriteDay
                     /\ crazyStats'.heaviestLift = crazyStats.heaviestLift]_vars

\* the unit system was toggled to imperial while the stats of a collection
\* with custom exercises are shown: 1000 is "0.2" stones (it is "0.4" under
\* metric)
C19_Witness ==
    /\ view = "stats"
    /\ phase = "rendered"
    /\ unitSystem = "imperial"
    /\ storedUnitSystem = "imperial"
    /\ Len(customExercises) > 0
    /\ DOMAIN customBodyParts # {}
    /\ lifetimeStats.volume = 1000
    /\ crazyStats.pyramidStones.scaled = 2
    /\ crazyStats.heaviestLift.weight = 100

\* the indices of the workouts with an id in a collection
WithId(ws, id) == {i \in 1..Len(ws) : ws[i].id = id}

\* C20: after handleSaveWorkout(w) the collection has exactly one workout
\* with the id of w, which is w; every workout with another id is still
\* there, unchanged; the size is the same when the id was there before and
\* one more when it was not; no two workouts share an id.
C20_ReplaceOrAppend ==
    [][\A w \in LoggerWorkouts :
           HandleSaveWorkout(w) =>
               /\ Cardinality(WithId(workouts', w.id)) = 1
               /\ \A i \in WithId(workouts', w.id) : workouts'[i] = w
               /\ \A i \in 1..Len(workouts) :
                      workouts[i].id # w.id
                          => \E j \in 1..Len(workouts') : workouts'[j] = workouts[i]
               /\ \A j \in 1..Len(workouts') :
                      workouts'[j].id # w.id
                          => \E i \in 1..Len(workouts) : workouts[i] = workouts'[j]
               /\ Len(workouts') = IF WithId(workouts, w.id) # {}
                                   THEN Len(workouts) ELSE Len(workouts) + 1
               /\ \A i, j \in 1..Len(workouts') :
                      workouts'[i].id = workouts'[j].id => i = j]_vars

\* workouts have been saved under every id
C20_Witness ==
    /\ Len(workouts) = MaxIds
    /\ \A id \in 1..MaxIds : WithId(workouts, id) # {}
    /\ ~isEditing

\* position p of the collection is scanned before position q
Before(p, q) == p[1] < q[1] \/ (p[1] = q[1] /\ p[2] < q[2])

\* the exercises counted under a label of the body-part distribution
CountedUnder(label) ==
    {p \in ExercisePositions : BodyPartOf(ExerciseAt(p), customBodyParts) = label}

\* C22: the body-part distribution is sorted by set count, largest first, and
\* of two labels with the same count the one met first while scanning the
\* workouts and their exercises in order comes first.
C22_DescendingThenFirstMet ==
    phase = "rendered" =>
        \A k, l \in 1..Len(bodyPartData) :
            k < l =>
                \/ bodyPartData[k].value > bodyPartData[l].value
                \/ /\ bodyPartData[k].value = bodyPartData[l].value
                   /\ \E p \in CountedUnder(bodyPartData[k].name) :
                          \A q \in CountedUnder(bodyPartData[l].name) :
                              Before(p, q)

\* three labels, the last two with the same count, and the label with the
\* largest count met last in the scan
C22_Witness ==
    /\ phase = "rendered"
    /\ Len(bodyPartData) = 3
    /\ bodyPartData[1].value > bodyPartData[2].value
    /\ bodyPartData[2].value = bodyPartData[3].value
    /\ \E p \in CountedUnder(bodyPartData[2].name) :
           \A q \in CountedUnder(bodyPartData[1].name) : Before(p, q)

\* v is the greatest element of the set of numbers S
IsMaxOf(v, S) == v \in S /\ \A x \in S : x <= v

\* exercise j is the first exercise of workout i that matches the selected
\* name
FirstMatch(i, j) == Matches(i, j) /\ \A h \in 1..(j - 1) : ~Matches(i, h)

\* C23: the progression series is in ascending order of workout timestamp,
\* and each point carries the greatest weight (an absent weight is 0) and the
\* greatest calculateOneRepMax(weight, reps) over the sets of the first
\* exercise of its workout that matches the selected name; the sets of a
\* further exercise of the same name in that workout are not merged in.
C23_AscendingFirstMatchValues ==
    phase = "rendered" =>
        /\ \A k, l \in 1..Len(exerciseProgressData) :
               k < l => exerciseProgressData[k].fullDate
                            <= exerciseProgressData[l].fullDate
        /\ \A k \in 1..Len(exerciseProgressData) :
               \E p \in ExercisePositions :
                   /\ workouts[p[1]].date = exerciseProgressData[k].fullDate
                   /\ FirstMatch(p[1], p[2])
                   /\ IsMaxOf(exerciseProgressData[k].maxWeight,
                          {FieldOf(<<p[1], p[2], n>>, "weight") :
                              n \in 1..Len(ExerciseAt(p).sets)})
                   /\ IsMaxOf(exerciseProgressData[k].oneRepMax,
                          {OneRepMaxAt(<<p[1], p[2], n>>) :
                              n \in 1..Len(ExerciseAt(p).sets)})

\* two points out of the stored order of their workouts, and a workout
\* whose second exercise of the selected name has a set with a greater
\* estimated 1RM than the point shows
C23_Witness ==
    /\ phase = "rendered"
    /\ Len(exerciseProgressData) = 2
    /\ exerciseProgressData[1].fullDate = workouts[2].date
    /\ exerciseProgressData[2].fullDate = workouts[1].date
    /\ workouts[1].date > workouts[2].date
    /\ \E p, q \in ExercisePositions :
           /\ p[1] = q[1]
           /\ FirstMatch(p[1], p[2])
           /\ Matches(q[1], q[2])
           /\ p[2] < q[2]
           /\ \E k \in 1..Len(exerciseProgressData) :
                  /\ exerciseProgressData[k].fullDate = workouts[p[1]].date
                  /\ \E n \in 1..Len(ExerciseAt(q).sets) :
                         OneRepMaxAt(<<q[1], q[2], n>>)
                             > exerciseProgressData[k].oneRepMax

\* C27: every progression point has an estimated 1RM of at least its maximum
\* weight, also when a set was logged with a weight but 0 reps.
C27_EstimateAtLeastMaxWeight ==
    phase = "rendered" =>
        \A k \in 1..Len(exerciseProgressData) :
            exerciseProgressData[k].oneRepMax
                >= exerciseProgressData[k].maxWeight

\* C28: the feedback on display was requested for the coach that is selected
\* now, whatever the order of coach selections and replies, and loading is
\* false whenever no request is outstanding.
C28_FeedbackOfSelectedCoach ==
    /\ \A k \in 1..Len(feedback) : feedback[k].coach = selectedCoach
    /\ pending = <<>> => ~loading

\* the calendar day of a date
DayOf(date) == date \div TicksPerDay

DaysOf(ws) == {DayOf(ws[i].date) : i \in 1..Len(ws)}

\* the exercise names logged on a day
NamesOn(ws, day) ==
    UNION { {ws[i].exercises[j].name : j \in 1..Len(ws[i].exercises)} :
                i \in {h \in 1..Len(ws) : DayOf(ws[h].date) = day} }

\* weight, reps, distance and duration of a set, an absent field being 0
LoggedValues(s) ==
    <<Num(s, "weight"), Num(s, "reps"), Num(s, "distance"), Num(s, "duration")>>

\* the values of the sets logged under a name in the exercises exs, and on a
\* day in the workouts ws, in their order
RECURSIVE SetsNamed(_, _)
SetsNamed(exs, name) ==
    IF Len(exs) = 0 THEN <<>>
    ELSE (IF exs[1].name = name
          THEN [k \in 1..Len(exs[1].sets) |-> LoggedValues(exs[1].sets[k])]
          ELSE <<>>) \o SetsNamed(Tail(exs), name)

RECURSIVE SetsOn(_, _, _)
SetsOn(ws, day, name) ==
    IF Len(ws) = 0 THEN <<>>
    ELSE (IF DayOf(ws[1].date) = day THEN SetsNamed(ws[1].exercises, name)
          ELSE <<>>) \o SetsOn(Tail(ws), day, name)

\* C30: a CSV export imported into an empty collection gives one workout for
\* each exported calendar day, with the same exercise names and under each
\* name the same sets (weight, reps, distance, duration); and
\* timeStrToMinutes(minutesToTimeStr(m)) is m for a duration m of a whole
\* number of seconds.
C30_RoundTrip ==
    /\ \A r \in 1..Len(roundTrip) :
           LET imported == roundTrip[r]
           IN /\ DaysOf(imported) = DaysOf(workouts)
              /\ \A i, j \in 1..Len(imported) :
                     DayOf(imported[i].date) = DayOf(imported[j].date) => i = j
              /\ \A day \in DaysOf(workouts) :
                     /\ NamesOn(imported, day) = NamesOn(workouts, day)
                     /\ \A name \in NamesOn(workouts, day) :
                            SetsOn(imported, day, name) = SetsOn(workouts, day, name)
    /\ \A r \in 1..Len(minutes) :
           minutes[r].num * args.minutes.den = args.minutes.num * minutes[r].den

\* C26: for the collection as the app stores it, the date of a personal
\* record is the earliest of the dates of the workouts in which the exercise
\* reached the recorded value.
C26_RecordDateIsEarliest ==
    phase = "rendered" =>
        \A k \in 1..Len(personalRecords) :
            \A p \in NonCardioNamed(personalRecords[k].name) :
                BestAt(p) = personalRecords[k].weight
                    => personalRecords[k].date <= workouts[p[1]].date

\* C21: after any sequence of logger saves and CSV imports the collection
\* holds at most one workout per calendar day.
C21_OneWorkoutPerDay ==
    \A i, j \in 1..Len(workouts) :
        DayOf(workouts[i].date) = DayOf(workouts[j].date) => i = j

\* the exercise e is valid: a name that is not blank and at least one set
IsValidExercise(e) == e.name # "" /\ Len(e.sets) >= 1

\* C24: every stored workout has at least one exercise and every stored
\* exercise a non-blank name and at least one set; and a save from a logger
\* without a valid exercise leaves the collection as it is and the logger
\* open (a step that ends a file read is the import's, not the logger's).
C24_OnlyValidExercisesStored ==
    /\ [](\A i \in 1..Len(workouts) :
              /\ Len(workouts[i].exercises) >= 1
              /\ \A j \in 1..Len(workouts[i].exercises) :
                     IsValidExercise(workouts[i].exercises[j]))
    /\ [][(/\ isEditing
           /\ \A j \in 1..Len(exercises) : ~IsValidExercise(exercises[j])
           /\ reads' = reads)
              => workouts' = workouts]_vars

\* an imported and a logged workout are stored, and the logger is open on an
\* exercise whose only set was removed
C24_Witness ==
    /\ Len(workouts) = 2
    /\ \E i \in 1..Len(workouts) : "durationMinutes" \notin DOMAIN workouts[i]
    /\ \E i \in 1..Len(workouts) : "durationMinutes" \in DOMAIN workouts[i]
    /\ isEditing
    /\ Len(exercises) = 1
    /\ exercises[1].name = "Squat"
    /\ exercises[1].sets = <<>>

\* C25: after every handleSaveWorkout and every completed import the
\* workouts are in descending order of timestamp.
C25_NewestFirst ==
    \A i, j \in 1..Len(workouts) :
        i < j => workouts[i].date >= workouts[j].date

\* an import put its workout before an older logged one
C25_Witness ==
    /\ Len(workouts) = 2
    /\ "durationMinutes" \notin DOMAIN workouts[1]
    /\ "durationMinutes" \in DOMAIN workouts[2]
    /\ workouts[1].date > workouts[2].date
    /\ reads = <<>>

\* C29: no step loses data: a name of the custom exercise list and a key of
\* the body-part map stays, whatever happens between the start of a file
\* read and its onload, and the workouts of the collection stay in it.
C29_NothingLost ==
    [][/\ \A n \in 1..Len(customExercises) :
              Includes(customExercises', customExercises[n])
       /\ DOMAIN customBodyParts \subseteq DOMAIN customBodyParts'
       /\ \A i \in 1..Len(workouts) :
              \E j \in 1..Len(workouts') : workouts'[j].id = workouts[i].id]_vars

====
